---- MODULE Spec2Model ----
(***************************************************************************)
(* Model of the documentation-driven code generator of bloons-mcp          *)
(* (src/codegen/gen.py, src/gen.py) and of the client that it emits        *)
(* (src/btd6_api_wrapper.py).                                              *)
(*                                                                         *)
(* A Python str is a sequence of one-character strings: "aB" is            *)
(* <<"a", "B">>.  The regular expressions and str methods the generator    *)
(* uses are operators over such sequences, computed the way re and str     *)
(* compute them (leftmost, non-overlapping, greedy).                       *)
(***************************************************************************)
EXTENDS Integers, Sequences, FiniteSets, TLC

VARIABLES
    pc,         \* position of the run that the specification models
    name,       \* to_snake_case: the argument
    snake,      \* to_snake_case(name)
    snake2,     \* to_snake_case(snake)
    type_name,  \* to_pascal_case(name)
    type_str,   \* map_type_hint: the argument
    type_hint,  \* map_type_hint(type_str)
    doc_headings,       \* the response-model headings of the page read so far
    doc_nav,            \* the navigation entries of the page read so far
    processed_models,   \* generate_pydantic_models: processed_models
    model_definitions,  \* generate_pydantic_models: model_definitions
    methods_data,       \* parse_api_methods: methods_data
    output,             \* run_generator: the rendered models and methods
    field_rows,         \* generate_pydantic_models: the rows of one container
    fields,             \* generate_pydantic_models: fields_data of these rows
    method,             \* emitted client: the endpoint method that is called
    response,           \* emitted client: what the HTTP request comes to
    body,               \* emitted client: what _get_request hands back
    result,             \* emitted client: what the caller of the method gets
    printed,            \* emitted client: number of diagnostics printed
    races,              \* main: races
    leaderboard,        \* main: leaderboard
    in_progress,        \* main: number of calls issued and not yet completed
    closed,             \* main: number of times api.close() was called
    raised,             \* main: an exception is propagating
    fetches,            \* run_generator: number of client.get(url) calls made
    written,            \* run_generator: the contents written to the output file
    calls,              \* emitted client: the frames of the concurrent calls
    towers,             \* TowerDataStore: self.towers, in insertion order
    heroes,             \* TowerDataStore: self.heroes, in insertion order
    arg,                \* TowerDataStore: the category or query of the call
    results,            \* TowerDataStore: the list that the call returns
    data_file,          \* TowerDataStore: the data file and what it holds
    cursor,             \* TowerDataStore: entries of the file handled so far
    tower_links,        \* scrape_btd6_wiki: len(tower_links)
    link_index,         \* scrape_btd6_wiki: links of the slice handled so far
    visited,            \* scrape_btd6_wiki: number of tower pages requested
    scraped,            \* scrape_btd6_wiki: towers
    scrape_result,      \* scrape_btd6_wiki: what the caller gets
    scraper_closed,     \* scraper run: number of scraper.close() calls
    gen_error           \* scraper run: the exception that is propagating

normVars == <<name, snake, snake2, type_name>>
typeVars == <<type_str, type_hint>>
genVars == <<doc_headings, doc_nav, processed_models, model_definitions,
             methods_data, output, fetches, written>>
schemaVars == <<field_rows, fields>>
clientVars == <<method, response, body, result, printed>>
mainVars == <<races, leaderboard, in_progress, closed, raised>>
wrapperVars == <<clientVars, mainVars>>
concVars == <<calls>>
storeVars == <<towers, heroes, arg, results, data_file, cursor>>
scraperVars == <<tower_links, link_index, visited, scraped, scrape_result,
                 scraper_closed, gen_error>>
extraVars == <<concVars, storeVars, scraperVars>>
vars == <<pc, normVars, typeVars, genVars, schemaVars, wrapperVars, extraVars>>

\* the value of a variable that the specification at hand does not use
Unused == <<>>

NormUnused ==
    name = Unused /\ snake = Unused /\ snake2 = Unused /\ type_name = Unused

TypeUnused == type_str = Unused /\ type_hint = Unused

GenUnused ==
    /\ doc_headings = Unused /\ doc_nav = Unused /\ processed_models = Unused
    /\ model_definitions = Unused /\ methods_data = Unused /\ output = Unused
    /\ fetches = Unused /\ written = Unused

SchemaUnused == field_rows = Unused /\ fields = Unused

ClientUnused ==
    /\ method = Unused /\ response = Unused /\ body = Unused
    /\ result = Unused /\ printed = Unused

MainUnused ==
    /\ races = Unused /\ leaderboard = Unused /\ in_progress = Unused
    /\ closed = Unused /\ raised = Unused

WrapperUnused == ClientUnused /\ MainUnused

ConcUnused == calls = Unused

StoreUnused ==
    /\ towers = Unused /\ heroes = Unused /\ arg = Unused
    /\ results = Unused /\ data_file = Unused /\ cursor = Unused

ScraperUnused ==
    /\ tower_links = Unused /\ link_index = Unused /\ visited = Unused
    /\ scraped = Unused /\ scrape_result = Unused
    /\ scraper_closed = Unused /\ gen_error = Unused

ExtraUnused == ConcUnused /\ StoreUnused /\ ScraperUnused

----------------------------------------------------------------------------
(* Characters and str methods                                              *)

UpperSeq == <<"A","B","C","D","E","F","G","H","I","J","K","L","M",
              "N","O","P","Q","R","S","T","U","V","W","X","Y","Z">>
LowerSeq == <<"a","b","c","d","e","f","g","h","i","j","k","l","m",
              "n","o","p","q","r","s","t","u","v","w","x","y","z">>

Upper == {UpperSeq[i] : i \in DOMAIN UpperSeq}
Lower == {LowerSeq[i] : i \in DOMAIN LowerSeq}
Digit == {"0","1","2","3","4","5","6","7","8","9"}
\* \w of the re module
WordChar == Upper \cup Lower \cup Digit \cup {"_"}
\* what str.strip() removes and \s matches
Whitespace == {" ", "\t", "\n", "\r"}

\* str.lower() on one character
LowerChar(c) ==
    IF c \in Upper
    THEN LowerSeq[CHOOSE i \in DOMAIN UpperSeq : UpperSeq[i] = c]
    ELSE c

\* str.lower()
str_lower(s) == [i \in DOMAIN s |-> LowerChar(s[i])]

\* every string over the characters cs of length at most n
StringsUpTo(cs, n) == UNION {[1..k -> cs] : k \in 0..n}

----------------------------------------------------------------------------
(* Identifier Normalizer: to_snake_case                                    *)

\* the end of the longest run of characters of cls that starts at s[i]
\* (i - 1 when s[i] is not in cls): the greedy [a-z]+ of the first pattern
RECURSIVE RunEnd(_, _, _)
RunEnd(s, i, cls) ==
    IF i <= Len(s) /\ s[i] \in cls THEN RunEnd(s, i + 1, cls) ELSE i - 1

\* (.)([A-Z][a-z]+) matches at position i
CamelMatchAt(s, i) ==
    /\ i + 2 <= Len(s)
    /\ s[i] # "\n"
    /\ s[i + 1] \in Upper
    /\ s[i + 2] \in Lower

\* re.sub(r"(.)([A-Z][a-z]+)", r"\1_\2", s), scanning from position i
RECURSIVE re_sub_camel(_, _)
re_sub_camel(s, i) ==
    IF i > Len(s) THEN <<>>
    ELSE IF CamelMatchAt(s, i)
         THEN LET e == RunEnd(s, i + 2, Lower)
              IN  <<s[i], "_">> \o SubSeq(s, i + 1, e) \o re_sub_camel(s, e + 1)
         ELSE <<s[i]>> \o re_sub_camel(s, i + 1)

\* re.sub(r"([a-z0-9])([A-Z])", r"\1_\2", s), scanning from position i
RECURSIVE re_sub_boundary(_, _)
re_sub_boundary(s, i) ==
    IF i > Len(s) THEN <<>>
    ELSE IF i + 1 <= Len(s) /\ s[i] \in Lower \cup Digit /\ s[i + 1] \in Upper
         THEN <<s[i], "_", s[i + 1]>> \o re_sub_boundary(s, i + 2)
         ELSE <<s[i]>> \o re_sub_boundary(s, i + 1)

\* a slip: the result is not lowered
to_snake_case_NoLower(s) == re_sub_boundary(re_sub_camel(s, 1), 1)

\* a slip: the second substitution is left out
to_snake_case_NoBoundary(s) == str_lower(re_sub_camel(s, 1))

to_snake_case(s) == str_lower(re_sub_boundary(re_sub_camel(s, 1), 1))

----------------------------------------------------------------------------
(* Specification of the normalizer: an identifier is normalized, and the   *)
(* result is normalized again.                                             *)

MaxNameLen == 4

NameChars == {"a", "b", "A", "B", "1", "_"}

SampleNames == {
    <<"t","o","t","a","l","S","c","o","r","e","s">>,
    <<"H","o","M">>,
    <<"r","a","c","e","I","D">>,
    <<"g","e","t","_","b","t","d","6","_","r","a","c","e","s">> }

Names == StringsUpTo(NameChars, MaxNameLen) \cup SampleNames

InitNorm ==
    /\ pc = "start"
    /\ name \in Names
    /\ snake = <<>>
    /\ snake2 = <<>>
    /\ type_name = Unused
    /\ TypeUnused /\ GenUnused
    /\ SchemaUnused /\ WrapperUnused
    /\ ExtraUnused

Normalize ==
    /\ pc = "start"
    /\ snake' = to_snake_case(name)
    /\ pc' = "once"
    /\ UNCHANGED <<name, snake2, type_name, typeVars, genVars,
                   schemaVars, wrapperVars, extraVars>>

NormalizeAgain ==
    /\ pc = "once"
    /\ snake2' = to_snake_case(snake)
    /\ pc' = "twice"
    /\ UNCHANGED <<name, snake, type_name, typeVars, genVars,
                   schemaVars, wrapperVars, extraVars>>

NextNorm == Normalize \/ NormalizeAgain

SpecNorm == InitNorm /\ [][NextNorm]_vars

----------------------------------------------------------------------------
(* Claims about the normalizer                                             *)

\* C9: identifier normalization is idempotent: normalizing the normalized
\* identifier gives the normalized identifier again.
C9_Idempotent == pc = "twice" => snake2 = snake

\* a normalized identifier in which separators were inserted is normalized again
C9_Witness == pc = "twice" /\ Len(snake) > Len(name) /\ snake2 = snake

\* a separator stands between s[i] and s[i + 1] by rule (a): a lowercase
\* letter or digit directly followed by an uppercase letter
BoundaryA(s, i) ==
    i + 1 <= Len(s) /\ s[i] \in Lower \cup Digit /\ s[i + 1] \in Upper

\* rule (b) as the claim states it: a capital letter followed by a capital
\* and at least one lowercase letter
BoundaryCapital(s, i) ==
    i + 2 <= Len(s) /\ s[i] \in Upper /\ s[i + 1] \in Upper /\ s[i + 2] \in Lower

\* rule (b) for any character in front of the capital+lowercase run
BoundaryAnyChar(s, i) ==
    i + 2 <= Len(s) /\ s[i] # "\n" /\ s[i + 1] \in Upper /\ s[i + 2] \in Lower

\* s in lower case with one "_" after every position i of marks
RECURSIVE Separated(_, _, _)
Separated(s, marks, i) ==
    IF i > Len(s) THEN <<>>
    ELSE <<LowerChar(s[i])>> \o (IF i \in marks THEN <<"_">> ELSE <<>>)
         \o Separated(s, marks, i + 1)

CapitalMarks(s) == {i \in DOMAIN s : BoundaryA(s, i) \/ BoundaryCapital(s, i)}
AnyCharMarks(s) == {i \in DOMAIN s : BoundaryA(s, i) \/ BoundaryAnyChar(s, i)}

\* C10 as stated: the result is the lowered identifier with a separator
\* exactly at (a) lowercase-or-digit before uppercase and (b) a capital before
\* a capital+lowercase run, and nowhere else.
C10_AsStated == pc # "start" => snake = Separated(name, CapitalMarks(name), 1)

\* C10 amended: the result is the lowered identifier with a separator exactly
\* at (a) lowercase-or-digit before uppercase and (b) any character before a
\* capital+lowercase run, and nowhere else; totalScores gives total_scores
\* and HoM gives ho_m.
C10_Separators ==
    /\ pc # "start" => snake = Separated(name, AnyCharMarks(name), 1)
    /\ (pc # "start" /\ name = <<"t","o","t","a","l","S","c","o","r","e","s">>)
          => snake = <<"t","o","t","a","l","_","s","c","o","r","e","s">>
    /\ (pc # "start" /\ name = <<"H","o","M">>) => snake = <<"h","o","_","m">>

\* an identifier with a separator of each rule, rule (b) after a character
\* that is no capital
C10_Witness ==
    /\ pc = "once"
    /\ \E i \in DOMAIN name : BoundaryAnyChar(name, i) /\ ~BoundaryCapital(name, i)
                              /\ ~BoundaryA(name, i)
    /\ \E i \in DOMAIN name : BoundaryA(name, i)
    /\ Len(snake) = Len(name) + 2

----------------------------------------------------------------------------
(* Type Inferencer: map_type_hint                                          *)

Chars(s) == {s[i] : i \in DOMAIN s}

\* str.strip(): leading and trailing whitespace removed
str_strip(s) ==
    LET keep == {i \in DOMAIN s : s[i] \notin Whitespace}
    IN  IF keep = {} THEN <<>>
        ELSE LET first == CHOOSE i \in keep : \A j \in keep : i <= j
                 last  == CHOOSE i \in keep : \A j \in keep : j <= i
             IN  SubSeq(s, first, last)

\* str.split(c): the pieces between the occurrences of the character c
RECURSIVE str_split(_, _)
str_split(s, c) ==
    IF c \notin Chars(s) THEN <<s>>
    ELSE LET p == CHOOSE i \in DOMAIN s : s[i] = c /\ \A j \in 1..(i - 1) : s[j] # c
         IN  <<SubSeq(s, 1, p - 1)>> \o str_split(SubSeq(s, p + 1, Len(s)), c)

\* the keys of type_map, and type_map.get(t, "Any")
type_map_get(t) ==
    CASE t = <<"s","t","r","i","n","g">> -> "str"
      [] t = <<"n","u","m","b","e","r">> -> "int | float"
      [] t = <<"b","o","o","l","e","a","n">> -> "bool"
      [] t = <<"a","r","r","a","y">> -> "list"
      [] t = <<"s","t","r","i","n","g","[","]">> -> "list[str]"
      [] t = <<"m","a","p">> -> "dict[str, Any]"
      [] t = <<"n","e","s","t","e","d","m","a","p">> -> "dict[str, Any]"
      [] t = <<"a","s","s","e","t","u","r","l">> -> "str"
      [] t = <<"r","a","w">> -> "dict[str, Any]"
      [] OTHER -> "Any"

\* a slip: the pieces are not stripped
literal_values_NoStrip(t) == str_split(t, ",")

\* [f"'{val.strip()}'" for val in type_str.split(",")], without the quotes
literal_values(t) ==
    LET pieces == str_split(t, ",")
    IN  [i \in DOMAIN pieces |-> str_strip(pieces[i])]

\* The result f"Literal[{', '.join(literals)}]" is the record with hint
\* "Literal" and the list of literals; every other result is its hint alone.
TypeExpr(hint, literals) == [hint |-> hint, literals |-> literals]

\* a slip: the type string is not lowered before the lookup
map_type_hint_NoLower(ts) ==
    LET t == str_strip(ts)
    IN  IF t = <<>> THEN TypeExpr("Any", <<>>)
        ELSE IF "," \in Chars(t) THEN TypeExpr("Literal", literal_values(t))
        ELSE TypeExpr(type_map_get(t), <<>>)

map_type_hint(ts) ==
    LET t == str_lower(str_strip(ts))
    IN  IF t = <<>> THEN TypeExpr("Any", <<>>)
        ELSE IF "," \in Chars(t) THEN TypeExpr("Literal", literal_values(t))
        ELSE TypeExpr(type_map_get(t), <<>>)

----------------------------------------------------------------------------
(* Specification of the type inferencer: one documentation type string is  *)
(* mapped.                                                                 *)

MaxTypeLen == 4

TypeChars == {"a", "A", ",", " "}

\* documentation tokens, known and unknown, in the spellings of the page
TypeTokens == {
    <<"s","t","r","i","n","g">>, <<"S","t","r","i","n","g">>, <<"n","u","m","b","e","r">>, <<"N","U","M","B","E","R">>, <<"b","o","o","l","e","a","n">>, <<"a","r","r","a","y">>,
    <<"s","t","r","i","n","g","[","]">>, <<"m","a","p">>, <<"M","a","p">>, <<"n","e","s","t","e","d","m","a","p">>, <<"a","s","s","e","t","U","r","l">>, <<"r","a","w">>,
    <<"o","b","j","e","c","t">>, <<"s","t","r","i","n","g","s">>, <<"O","P","E","N">> }

Padding == {<<>>, <<" ">>, <<"\t">>}

SampleTypes == {
    <<"O","P","E","N",","," ","F","I","L","T","E","R","E","D",","," ","C","L","O","S","E","D",","," ","D","I","S","B","A","N","D","E","D">>,
    <<"E","a","s","y",",","M","e","d","i","u","m"," ",","," ","H","a","r","d">>,
    <<"a",","," ","a",","," ","a">> }

TypeStrings ==
    StringsUpTo(TypeChars, MaxTypeLen)
    \cup {l \o t \o r : l \in Padding, t \in TypeTokens, r \in Padding}
    \cup {t \o <<",">> \o l \o u : t \in TypeTokens, l \in Padding, u \in TypeTokens}
    \cup SampleTypes

InitType ==
    /\ pc = "start"
    /\ type_str \in TypeStrings
    /\ type_hint = Unused
    /\ NormUnused /\ GenUnused
    /\ SchemaUnused /\ WrapperUnused
    /\ ExtraUnused

InferType ==
    /\ pc = "start"
    /\ type_hint' = map_type_hint(type_str)
    /\ pc' = "done"
    /\ UNCHANGED <<type_str, normVars, genVars,
                   schemaVars, wrapperVars, extraVars>>

NextType == InferType

SpecType == InitType /\ [][NextType]_vars

----------------------------------------------------------------------------
(* Claims about the type inferencer                                        *)

Inferred == pc = "done"

\* the position of the k-th comma of s; 0 for k = 0, Len(s) + 1 past the last
CommaAt(s, k) ==
    LET commas == {i \in DOMAIN s : s[i] = ","}
    IN  IF k = 0 THEN 0
        ELSE IF k > Cardinality(commas) THEN Len(s) + 1
        ELSE CHOOSE i \in commas : Cardinality({j \in commas : j < i}) = k - 1

CommaCount(s) == Cardinality({i \in DOMAIN s : s[i] = ","})

\* the k-th comma-separated piece of s, as written in the documentation
Piece(s, k) == SubSeq(s, CommaAt(s, k - 1) + 1, CommaAt(s, k) - 1)

Trimmed(s) ==
    s = <<>> \/ (s[1] \notin Whitespace /\ s[Len(s)] \notin Whitespace)

\* C6: a type string with a comma gives a closed-choice type with one option
\* per comma-separated piece (commas + 1), in split order (option k is piece
\* k up to letter case and surrounding whitespace), repeated pieces kept, and
\* no option has leading or trailing whitespace.
C6_EnumShape ==
    (Inferred /\ "," \in Chars(type_str)) =>
        /\ type_hint.hint = "Literal"
        /\ Len(type_hint.literals) = CommaCount(type_str) + 1
        /\ \A k \in DOMAIN type_hint.literals :
              /\ Trimmed(type_hint.literals[k])
              /\ str_lower(type_hint.literals[k])
                    = str_lower(str_strip(Piece(type_str, k)))

\* an enumeration with a repeated piece and whitespace around a piece
C6_Witness ==
    /\ Inferred
    /\ type_hint.hint = "Literal"
    /\ Len(type_hint.literals) = 3
    /\ type_hint.literals[1] = type_hint.literals[2]
    /\ \E k \in 1..3 : ~Trimmed(Piece(type_str, k))

\* C7: each option is exactly the trimmed comma-separated value of the
\* documentation string: "OPEN, FILTERED, CLOSED, DISBANDED" yields OPEN,
\* FILTERED, CLOSED, DISBANDED.
C7_ValuesKept ==
    (Inferred /\ "," \in Chars(type_str)) =>
        /\ type_hint.hint = "Literal"
        /\ \A k \in DOMAIN type_hint.literals :
              type_hint.literals[k] = str_strip(Piece(type_str, k))
        /\ type_str = <<"O","P","E","N",","," ","F","I","L","T","E","R","E","D",","," ","C","L","O","S","E","D",","," ","D","I","S","B","A","N","D","E","D">> =>
              type_hint.literals = << <<"O","P","E","N">>, <<"F","I","L","T","E","R","E","D">>, <<"C","L","O","S","E","D">>, <<"D","I","S","B","A","N","D","E","D">> >>

EqualsIgnoringCase(s, t) == str_lower(s) = str_lower(t)

\* the table of the claim: known token, as the documentation spells it, and
\* its type
KnownTokens == {
    << <<"s","t","r","i","n","g">>, "str" >>, << <<"n","u","m","b","e","r">>, "int | float" >>,
    << <<"b","o","o","l","e","a","n">>, "bool" >>, << <<"a","r","r","a","y">>, "list" >>,
    << <<"s","t","r","i","n","g","[","]">>, "list[str]" >>, << <<"m","a","p">>, "dict[str, Any]" >>,
    << <<"n","e","s","t","e","d","m","a","p">>, "dict[str, Any]" >>, << <<"a","s","s","e","t","U","r","l">>, "str" >>,
    << <<"r","a","w">>, "dict[str, Any]" >> }

TypeExprs == {"Any", "Literal"} \cup {k[2] : k \in KnownTokens}

\* C8: type inference returns a type expression for every input, by the first
\* rule that applies: empty or whitespace-only gives Any; a comma gives an
\* enumeration, even of known tokens; a known token, in any letter case,
\* gives its type; every other token gives Any.
C8_RulesInOrder ==
    Inferred =>
        LET t == str_strip(type_str)
            known == {k \in KnownTokens : EqualsIgnoringCase(t, k[1])}
        IN  /\ type_hint.hint \in TypeExprs
            /\ t = <<>> => type_hint.hint = "Any"
            /\ (t # <<>> /\ "," \in Chars(t)) => type_hint.hint = "Literal"
            /\ (t # <<>> /\ "," \notin Chars(t)) =>
                  /\ \A k \in known : type_hint.hint = k[2]
                  /\ known = {} => type_hint.hint = "Any"

\* a known token in another letter case than the table's, with whitespace
\* around it
C8_Witness ==
    /\ Inferred
    /\ type_str = <<" ">> \o <<"N","U","M","B","E","R">> \o <<"\t">>
    /\ type_hint.hint = "int | float"

----------------------------------------------------------------------------
(* More str and re operations                                              *)

\* sub occurs in s at position i
MatchAt(s, i, sub) ==
    i + Len(sub) - 1 <= Len(s) /\ SubSeq(s, i, i + Len(sub) - 1) = sub

\* sub in s
Contains(s, sub) == \E i \in 1..(Len(s) + 1) : MatchAt(s, i, sub)

\* s.endswith(sub)
EndsWith(s, sub) == Len(sub) <= Len(s) /\ MatchAt(s, Len(s) - Len(sub) + 1, sub)

\* s.replace(old, new) for a non-empty old, scanning from position i
RECURSIVE str_replace_from(_, _, _, _)
str_replace_from(s, old, new, i) ==
    IF i > Len(s) THEN <<>>
    ELSE IF MatchAt(s, i, old)
         THEN new \o str_replace_from(s, old, new, i + Len(old))
         ELSE <<s[i]>> \o str_replace_from(s, old, new, i + 1)

str_replace(s, old, new) == str_replace_from(s, old, new, 1)

\* s.strip(cs) and s.lstrip(cs) for a set of characters cs
strip_chars(s, cs) ==
    LET keep == {i \in DOMAIN s : s[i] \notin cs}
    IN  IF keep = {} THEN <<>>
        ELSE LET first == CHOOSE i \in keep : \A j \in keep : i <= j
                 last  == CHOOSE i \in keep : \A j \in keep : j <= i
             IN  SubSeq(s, first, last)

lstrip_chars(s, cs) ==
    LET keep == {i \in DOMAIN s : s[i] \notin cs}
    IN  IF keep = {} THEN <<>>
        ELSE SubSeq(s, CHOOSE i \in keep : \A j \in keep : i <= j, Len(s))

\* re.sub(r"\s+", "_", s), scanning from position i
RECURSIVE re_sub_spaces(_, _)
re_sub_spaces(s, i) ==
    IF i > Len(s) THEN <<>>
    ELSE IF s[i] \in Whitespace
         THEN <<"_">> \o re_sub_spaces(s, RunEnd(s, i, Whitespace) + 1)
         ELSE <<s[i]>> \o re_sub_spaces(s, i + 1)

\* re.findall(r":(\w+)", s), scanning from position i
RECURSIVE re_findall_params(_, _)
re_findall_params(s, i) ==
    IF i > Len(s) THEN <<>>
    ELSE IF s[i] = ":" /\ i + 1 <= Len(s) /\ s[i + 1] \in WordChar
         THEN LET e == RunEnd(s, i + 1, WordChar)
              IN  <<SubSeq(s, i + 1, e)>> \o re_findall_params(s, e + 1)
         ELSE re_findall_params(s, i + 1)

\* re.split("_|-", s)
RECURSIVE re_split_parts(_)
re_split_parts(s) ==
    LET seps == {i \in DOMAIN s : s[i] \in {"_", "-"}}
    IN  IF seps = {} THEN <<s>>
        ELSE LET p == CHOOSE i \in seps : \A j \in seps : i <= j
             IN  <<SubSeq(s, 1, p - 1)>> \o re_split_parts(SubSeq(s, p + 1, Len(s)))

\* str.upper() on one character
UpperChar(c) ==
    IF c \in Lower
    THEN UpperSeq[CHOOSE i \in DOMAIN LowerSeq : LowerSeq[i] = c]
    ELSE c

\* str.capitalize(): first character upper, the rest lower
str_capitalize(s) ==
    [i \in DOMAIN s |-> IF i = 1 THEN UpperChar(s[i]) ELSE LowerChar(s[i])]

\* "".join(parts)
RECURSIVE str_join(_)
str_join(parts) ==
    IF parts = <<>> THEN <<>> ELSE Head(parts) \o str_join(Tail(parts))

----------------------------------------------------------------------------
(* Identifier Normalizer: to_pascal_case                                   *)

\* re.split("_", s): a slip that leaves the hyphen out of the pattern
RECURSIVE re_split_underscore(_)
re_split_underscore(s) ==
    LET seps == {i \in DOMAIN s : s[i] = "_"}
    IN  IF seps = {} THEN <<s>>
        ELSE LET p == CHOOSE i \in seps : \A j \in seps : i <= j
             IN  <<SubSeq(s, 1, p - 1)>>
                 \o re_split_underscore(SubSeq(s, p + 1, Len(s)))

to_pascal_case_UnderscoreOnly(n) ==
    LET n1 == lstrip_chars(n, {"_"})
        n2 == str_replace(str_replace(n1, <<"b","t","d","6">>, <<"B","t","d","6">>),
                          <<"b","a","t","t","l","e","s","2">>, <<"B","a","t","t","l","e","s","2">>)
        parts == re_split_underscore(n2)
    IN  str_join([i \in DOMAIN parts |-> str_capitalize(parts[i])])

to_pascal_case(n) ==
    LET n1 == lstrip_chars(n, {"_"})
        n2 == str_replace(str_replace(n1, <<"b","t","d","6">>, <<"B","t","d","6">>),
                          <<"b","a","t","t","l","e","s","2">>, <<"B","a","t","t","l","e","s","2">>)
        parts == re_split_parts(n2)
    IN  str_join([i \in DOMAIN parts |-> str_capitalize(parts[i])])

----------------------------------------------------------------------------
(* Endpoint Extractor: the body of the loop of parse_api_methods           *)

list_triggers == { <<"l","e","a","d","e","r","b","o","a","r","d">>, <<"f","i","l","t","e","r">>, <<"m","a","t","c","h","e","s">>, <<"h","o","m","s">> }

\* a slip: the trigger words are not looked at
is_list_path_NoTriggers(path) ==
    ":" \notin Chars(path) \/ EndsWith(path, <<"/","m","a","p","s">>)

\* the condition under which an endpoint with a response model is a list
is_list_path(path) ==
    \/ ":" \notin Chars(path)
    \/ \E trigger \in list_triggers : Contains(path, trigger)
    \/ EndsWith(path, <<"/","m","a","p","s">>)

\* a slip: the separators of the path are dropped, not replaced
function_name_NoSeparators(path) ==
    LET clean == strip_chars(str_replace(str_replace(path, <<"/">>, <<>>),
                                         <<":">>, <<" ","b","y"," ">>), Whitespace)
    IN  to_snake_case(<<"g","e","t","_">> \o re_sub_spaces(clean, 1))

function_name(path) ==
    LET clean == strip_chars(str_replace(str_replace(path, <<"/">>, <<" ">>),
                                         <<":">>, <<" ","b","y"," ">>), Whitespace)
    IN  to_snake_case(<<"g","e","t","_">> \o re_sub_spaces(clean, 1))

path_params(path) ==
    LET found == re_findall_params(path, 1)
    IN  [i \in DOMAIN found |-> to_snake_case(found[i])]

\* the loop over re.findall that rewrites the markers of the template
RECURSIVE substitute_params(_, _)
substitute_params(fstring, found) ==
    IF found = <<>> THEN fstring
    ELSE substitute_params(
            str_replace(fstring, <<":">> \o Head(found),
                        <<"{">> \o to_snake_case(Head(found)) \o <<"}">>),
            Tail(found))

endpoint_fstring(path) ==
    substitute_params(strip_chars(path, {"/"}), re_findall_params(path, 1))

\* a slip: an endpoint without a response model is typed by its path
response_type_Typed(path, has_section, section_models) ==
    IF ":" \notin Chars(path)
    THEN [model_name |-> <<"A","n","y">>, return_type |-> <<"l","i","s","t","[","A","n","y","]"," ","|"," ","N","o","n","e">>,
          is_list |-> TRUE]
    ELSE [model_name |-> <<"A","n","y">>, return_type |-> <<"A","n","y"," ","|"," ","N","o","n","e">>,
          is_list |-> FALSE]

\* model_name, return_model and is_list of one endpoint, from its detail
\* section: has_section says that the section was found, section_models lists
\* the labels of the response-model headings inside it
response_type(path, has_section, section_models) ==
    IF has_section /\ section_models # <<>>
    THEN LET model_name == to_pascal_case(str_strip(section_models[1]))
         IN  IF is_list_path(path)
             THEN [model_name |-> model_name,
                   return_type |-> <<"l","i","s","t","[">> \o model_name \o <<"]"," ","|"," ","N","o","n","e">>,
                   is_list |-> TRUE]
             ELSE [model_name |-> model_name,
                   return_type |-> model_name \o <<" ","|"," ","N","o","n","e">>,
                   is_list |-> FALSE]
    ELSE [model_name |-> <<"A","n","y">>, return_type |-> <<"A","n","y"," ","|"," ","N","o","n","e">>,
          is_list |-> FALSE]

\* the dict appended to methods_data for a navigation entry
method_data(entry) ==
    LET path == str_strip(entry.title)
        rt == response_type(path, entry.has_section, entry.section_models)
    IN  [name |-> function_name(path),
         url |-> path,
         params |-> path_params(path),
         endpoint_fstring |-> endpoint_fstring(path),
         return_type |-> rt.return_type,
         model_name |-> rt.model_name,
         is_list |-> rt.is_list]

----------------------------------------------------------------------------
(* Schema Extractor: the body of the loop of generate_pydantic_models      *)

\* " ".join(s.strip().split()): runs of whitespace collapsed, from position i
RECURSIVE collapse_from(_, _)
collapse_from(s, i) ==
    IF i > Len(s) THEN <<>>
    ELSE IF s[i] \in Whitespace
         THEN <<" ">> \o collapse_from(s, RunEnd(s, i, Whitespace) + 1)
         ELSE <<s[i]>> \o collapse_from(s, i + 1)

collapse_spaces(s) == collapse_from(str_strip(s), 1)

\* a slip: the normalized name is recorded as the alias as well
field_data_AliasNormalized(cols) ==
    LET raw_field_name == str_strip(cols[1])
        base == to_snake_case(lstrip_chars(raw_field_name, {"_"}))
        desc == collapse_spaces(cols[2])
        python_field_name ==
            IF raw_field_name # <<>> /\ raw_field_name[1] = "_"
            THEN base \o <<"_","d","a","t","a">> ELSE base
    IN  [name |-> python_field_name,
         type_hint |-> map_type_hint(str_strip(cols[3])),
         alias |-> python_field_name,
         description |-> IF desc = <<>> THEN <<"N","o"," ","d","e","s","c","r","i","p","t","i","o","n"," ","a","v","a","i","l","a","b","l","e",".">>
                         ELSE desc]

\* a slip: a private field gets no suffix
field_data_NoSuffix(cols) ==
    LET raw_field_name == str_strip(cols[1])
        desc == collapse_spaces(cols[2])
    IN  [name |-> to_snake_case(lstrip_chars(raw_field_name, {"_"})),
         type_hint |-> map_type_hint(str_strip(cols[3])),
         alias |-> raw_field_name,
         description |-> IF desc = <<>> THEN <<"N","o"," ","d","e","s","c","r","i","p","t","i","o","n"," ","a","v","a","i","l","a","b","l","e",".">>
                         ELSE desc]

\* the entry of fields_data for a row of at least three columns
field_data(cols) ==
    LET raw_field_name == str_strip(cols[1])
        base == to_snake_case(lstrip_chars(raw_field_name, {"_"}))
        desc == collapse_spaces(cols[2])
    IN  [name |-> IF raw_field_name # <<>> /\ raw_field_name[1] = "_"
                  THEN base \o <<"_","d","a","t","a">> ELSE base,
         type_hint |-> map_type_hint(str_strip(cols[3])),
         alias |-> raw_field_name,
         description |-> IF desc = <<>> THEN <<"N","o"," ","d","e","s","c","r","i","p","t","i","o","n"," ","a","v","a","i","l","a","b","l","e",".">>
                         ELSE desc]

\* a slip: len(cols) > 3 in place of len(cols) > 2
RECURSIVE fields_data_FourColumns(_)
fields_data_FourColumns(rows) ==
    IF rows = <<>> THEN <<>>
    ELSE (IF Len(Head(rows)) > 3 THEN <<field_data(Head(rows))>> ELSE <<>>)
         \o fields_data_FourColumns(Tail(rows))

\* fields_data of a field container: one entry per row with more than two
\* columns, in row order
RECURSIVE fields_data(_)
fields_data(rows) ==
    IF rows = <<>> THEN <<>>
    ELSE (IF Len(Head(rows)) > 2 THEN <<field_data(Head(rows))>> ELSE <<>>)
         \o fields_data(Tail(rows))

\* model_name_raw of a heading: the text after "Response Model:", stripped
model_name_raw(heading) == str_strip(heading.label)

\* the class declaration model_code built for a heading
model_code(heading) ==
    [class_name |-> to_pascal_case(model_name_raw(heading)),
     raw_name |-> model_name_raw(heading),
     fields |-> fields_data(heading.rows)]

\* a slip: a heading is rendered although its name was processed before
models_after_NoDedup(definitions, processed, heading, code) ==
    IF ~heading.has_container THEN definitions
    ELSE Append(definitions, code)

\* model_definitions after the loop body ran for one heading; code is the
\* class declaration the body builds for it
models_after(definitions, processed, heading, code) ==
    IF model_name_raw(heading) \in processed THEN definitions
    ELSE IF ~heading.has_container THEN definitions
    ELSE Append(definitions, code)

\* a slip: a name is recorded only once its field container was found
processed_after_ContainerFirst(processed, heading) ==
    IF heading.has_container THEN processed \cup {model_name_raw(heading)}
    ELSE processed

\* processed_models after the loop body ran for one heading: the name is
\* added before the field container is looked up
processed_after(processed, heading) ==
    processed \cup {model_name_raw(heading)}

----------------------------------------------------------------------------
(* The generation run: run_generator                                       *)

\* a slip: the last method is not rendered
rendered_methods_DropLast(methods) ==
    [i \in 1..(Len(methods) - 1) |->
        [name |-> methods[i].name, params |-> methods[i].params,
         endpoint |-> methods[i].endpoint_fstring, url |-> methods[i].url,
         return_type |-> methods[i].return_type]]

\* rendered_methods_list: one rendering per entry of methods_data
rendered_methods(methods) ==
    [i \in DOMAIN methods |->
        [name |-> methods[i].name, params |-> methods[i].params,
         endpoint |-> methods[i].endpoint_fstring, url |-> methods[i].url,
         return_type |-> methods[i].return_type]]

\* the headings a page can hold
HeadingLabels == { <<"_","b","t","d","6","r","a","c","e">>, <<"b","a","t","t","l","e","s","2","_","h","o","m"," ">> }

FieldTables == {
    << << <<"i","d">>, <<"T","h","e"," "," ","r","a","c","e"," ","i","d">>, <<"s","t","r","i","n","g">> >>,
       << <<"t","o","t","a","l","S","c","o","r","e","s">>, <<>>, <<"n","u","m","b","e","r">> >> >>,
    << << <<"_","l","i","n","k","s">>, <<"l","i","n","k","s">>, <<"O","P","E","N",","," ","C","L","O","S","E","D">> >>,
       << <<"d","e","c","o","r","a","t","i","v","e">> >> >> }

Headings ==
    [label : HeadingLabels, has_container : {TRUE}, rows : FieldTables]
    \cup [label : HeadingLabels, has_container : {FALSE}, rows : {<<>>}]

\* the headings of pages whose model names differ in markers and separators
SchemaLabels == { <<"_","b","t","d","6","r","a","c","e">>, <<"b","t","d","6","r","a","c","e"," ">>, <<"b","t","d","6","_","h","o","m">>, <<"b","t","d","6","-","h","o","m">> }

SchemaHeadings ==
    [label : SchemaLabels, has_container : {TRUE}, rows : FieldTables]
    \cup [label : SchemaLabels, has_container : {FALSE}, rows : {<<>>}]

\* the detail section of a navigation entry: not found, found without a
\* response-model heading, found with one
Sections == {
    [has_section |-> FALSE, section_models |-> <<>>],
    [has_section |-> TRUE, section_models |-> <<>>],
    [has_section |-> TRUE, section_models |-> << <<"_","b","t","d","6","r","a","c","e">> >>] }

NavEntry(title, section) ==
    [title |-> title, has_section |-> section.has_section,
     section_models |-> section.section_models]

\* "/" in front of each segment
RECURSIVE PathOf(_)
PathOf(segments) ==
    IF segments = <<>> THEN <<>>
    ELSE <<"/">> \o Head(segments) \o PathOf(Tail(segments))

PathSegments == { <<"b","y">>, <<":","u","s","e","r","I","D">>, <<"u","s","e","r","I","D">>, <<"m","a","p","s">> }

SamplePaths == {
    <<"/","b","t","d","6","/","u","s","e","r","s","/",":","u","s","e","r","I","D">>,
    <<"/","b","t","d","6","/","c","t","/",":","c","t","I","D","/","l","e","a","d","e","r","b","o","a","r","d","/","p","l","a","y","e","r">>,
    <<"/","b","t","d","6","/","m","a","p","s","/","f","i","l","t","e","r","/",":","m","a","p","F","i","l","t","e","r">>,
    <<"/","b","a","t","t","l","e","s","2","/","u","s","e","r","s","/",":","u","s","e","r","I","D","/","m","a","t","c","h","e","s">>,
    <<"/","b","a","t","t","l","e","s","2","/","u","s","e","r","s","/",":","u","s","e","r","I","D","/","h","o","m","s">>,
    <<"/","b","t","d","6","/","m","a","p","s","/","m","a","p","/",":","m","a","p","I","D">>,
    <<"/","b","t","d","6","/",":","u","s","e","r","I","D","/","r","o","a","d","m","a","p","s">>,
    <<"/","b","t","d","6","/","m","a","p","s","/",":","m","a","p","/",":","m","a","p","I","D">>,
    <<"/","b","t","d","6","/","r","a","c","e","s">> }

Paths ==
    {PathOf(<<a>>) : a \in PathSegments}
    \cup {PathOf(<<a, b>>) : a \in PathSegments, b \in PathSegments}
    \cup SamplePaths

NavEntries == {NavEntry(p, sec) : p \in Paths, sec \in Sections}

\* the navigation entries of the pages of the whole run
RunPaths == { <<"/","b","t","d","6","/","r","a","c","e","s">>, <<"/","b","t","d","6","/","r","a","c","e","s","/",":","r","a","c","e","I","D","/","l","e","a","d","e","r","b","o","a","r","d">> }

RunNavEntries ==
    {NavEntry(p, sec) : p \in RunPaths,
        sec \in {s \in Sections : s.has_section = (s.section_models # <<>>)}}

MaxHeadings == 2
MaxEndpoints == 3
MaxNavEntries == 2

\* the results of the two loop bodies, computed once per heading and entry
ModelCodeOf ==
    [heading \in Headings \cup SchemaHeadings |-> model_code(heading)]

MethodDataOf == [entry \in NavEntries \cup RunNavEntries |-> method_data(entry)]

GenIdle ==
    /\ doc_headings = <<>> /\ doc_nav = <<>> /\ processed_models = {}
    /\ model_definitions = <<>> /\ methods_data = <<>> /\ output = <<>>
    /\ fetches = 0 /\ written = <<>>

InitGen ==
    /\ pc = "fetch"
    /\ GenIdle
    /\ NormUnused /\ TypeUnused
    /\ SchemaUnused /\ WrapperUnused
    /\ ExtraUnused

\* a slip: the run goes on to write the file after a failed fetch
after_fetch_WriteAnyway(ok) == IF ok THEN "models" ELSE "write"

\* where the run goes after the fetch: on, or out through one of the two
\* except clauses
after_fetch(ok) == IF ok THEN "models" ELSE "aborted"

\* client.get(url) and raise_for_status(): the page arrives or the run ends
Fetch ==
    /\ pc = "fetch"
    /\ fetches' = fetches + 1
    /\ \E ok \in BOOLEAN : pc' = after_fetch(ok)
    /\ UNCHANGED <<normVars, typeVars, doc_headings, doc_nav, processed_models,
                   model_definitions, methods_data, output, written,
                   schemaVars, wrapperVars, extraVars>>

\* one pass of the loop of generate_pydantic_models, for the next heading
ModelStepFrom(headings, max) ==
    /\ pc = "models"
    /\ Len(doc_headings) < max
    /\ \E heading \in headings :
          /\ doc_headings' = Append(doc_headings, heading)
          /\ model_definitions' =
                models_after(model_definitions, processed_models, heading,
                             ModelCodeOf[heading])
          /\ processed_models' = processed_after(processed_models, heading)
    /\ UNCHANGED <<pc, normVars, typeVars, doc_nav, methods_data, output,
                   fetches, written,
                   schemaVars, wrapperVars, extraVars>>

ModelStep == ModelStepFrom(Headings, MaxHeadings)

\* the loop is over: generate_pydantic_models returns
ModelsDone ==
    /\ pc = "models"
    /\ pc' = "methods"
    /\ UNCHANGED <<normVars, typeVars, genVars,
                   schemaVars, wrapperVars, extraVars>>

\* one pass of the loop of parse_api_methods, for the next navigation entry
EndpointStepFrom(entries, max) ==
    /\ pc = "methods"
    /\ Len(doc_nav) < max
    /\ \E entry \in entries :
          /\ doc_nav' = Append(doc_nav, entry)
          /\ methods_data' = Append(methods_data, MethodDataOf[entry])
    /\ UNCHANGED <<pc, normVars, typeVars, doc_headings, processed_models,
                   model_definitions, output, fetches, written,
                   schemaVars, wrapperVars, extraVars>>

EndpointStep == EndpointStepFrom(RunNavEntries, MaxEndpoints)

\* navigation entries without a title div or without a body div: the xpath
\* result is empty
MalformedNavEntries == {
    [missing |-> "title"],
    [missing |-> "description", title |-> <<"/","b","t","d","6","/","r","a","c","e","s">>] }

\* a pass of the loop of parse_api_methods for such an entry: [0] raises
\* IndexError, which leaves parse_api_methods and the run
EndpointIndexErrorFrom(max) ==
    /\ pc = "methods"
    /\ Len(doc_nav) < max
    /\ \E entry \in MalformedNavEntries : doc_nav' = Append(doc_nav, entry)
    /\ pc' = "raised"
    /\ UNCHANGED <<normVars, typeVars, doc_headings, processed_models,
                   model_definitions, methods_data, output, fetches, written,
                   schemaVars, wrapperVars, extraVars>>

EndpointIndexError == EndpointIndexErrorFrom(MaxEndpoints)

\* the loop is over: parse_api_methods returns
MethodsDone ==
    /\ pc = "methods"
    /\ pc' = "render"
    /\ UNCHANGED <<normVars, typeVars, genVars,
                   schemaVars, wrapperVars, extraVars>>

\* the templates are rendered: the models joined in list order, one method
\* rendering per entry of methods_data
Render ==
    /\ pc = "render"
    /\ output' = [models |-> model_definitions,
                  methods |-> rendered_methods(methods_data)]
    /\ pc' = "write"
    /\ UNCHANGED <<normVars, typeVars, doc_headings, doc_nav, processed_models,
                   model_definitions, methods_data, fetches, written,
                   schemaVars, wrapperVars, extraVars>>

\* the output file is written
Write ==
    /\ pc = "write"
    /\ written' = Append(written, output)
    /\ pc' = "done"
    /\ UNCHANGED <<normVars, typeVars, doc_headings, doc_nav, processed_models,
                   model_definitions, methods_data, output, fetches,
                   schemaVars, wrapperVars, extraVars>>

NextGen ==
    \/ Fetch
    \/ ModelStep
    \/ ModelsDone
    \/ EndpointStep
    \/ EndpointIndexError
    \/ MethodsDone
    \/ Render
    \/ Write

SpecGen == InitGen /\ [][NextGen]_vars

(* parse_api_methods on its own, over pages with many kinds of path        *)

InitEndpoints ==
    /\ pc = "methods"
    /\ GenIdle
    /\ NormUnused /\ TypeUnused
    /\ SchemaUnused /\ WrapperUnused
    /\ ExtraUnused

ParseEndpoint == EndpointStepFrom(NavEntries, MaxNavEntries)

ParseIndexError == EndpointIndexErrorFrom(MaxNavEntries)

NextEndpoints == ParseEndpoint \/ ParseIndexError \/ MethodsDone

SpecEndpoints == InitEndpoints /\ [][NextEndpoints]_vars

----------------------------------------------------------------------------
(* Claims about the endpoint extractor                                     *)

\* C1: function names are collision-free: two navigation entries of one page
\* with distinct paths never get the same function name.
C1_NamesCollisionFree ==
    \A i, j \in DOMAIN methods_data :
        methods_data[i].url # methods_data[j].url
            => methods_data[i].name # methods_data[j].name

\* the endpoint has a response model: its detail section was found and holds
\* a response-model heading
Typed(entry) == entry.has_section /\ entry.section_models # <<>>

TriggerWords == { <<"l","e","a","d","e","r","b","o","a","r","d">>, <<"f","i","l","t","e","r">>, <<"m","a","t","c","h","e","s">>, <<"h","o","m","s">> }

LastSegment(path) ==
    LET segments == str_split(path, "/") IN segments[Len(segments)]

\* the cardinality rule of the claim, first match first
CollectionByRule(path, params) ==
    IF params = <<>> THEN TRUE
    ELSE IF \E w \in TriggerWords : Contains(path, w) THEN TRUE
    ELSE IF LastSegment(path) = <<"m","a","p","s">> THEN TRUE
    ELSE FALSE

\* C2: an endpoint with a response model is a collection when its path has no
\* parameter, else when the path contains a trigger word, else when the path
\* ends in a maps segment, and single otherwise; /btd6/users/:userID is
\* single and /btd6/ct/:ctID/leaderboard/player is a collection.
C2_Cardinality ==
    \A i \in DOMAIN methods_data :
        Typed(doc_nav[i]) =>
            LET m == methods_data[i]
            IN  /\ m.is_list = CollectionByRule(m.url, m.params)
                /\ m.url = <<"/","b","t","d","6","/","u","s","e","r","s","/",":","u","s","e","r","I","D">> => ~m.is_list
                /\ m.url = <<"/","b","t","d","6","/","c","t","/",":","c","t","I","D","/","l","e","a","d","e","r","b","o","a","r","d","/","p","l","a","y","e","r">> => m.is_list

\* a typed endpoint with a parameter that is a collection by its trigger word
\* and one that is a collection by the maps rule alone
C2_Witness ==
    /\ Len(methods_data) = 2
    /\ Typed(doc_nav[1]) /\ Typed(doc_nav[2])
    /\ methods_data[1].url = <<"/","b","t","d","6","/","c","t","/",":","c","t","I","D","/","l","e","a","d","e","r","b","o","a","r","d","/","p","l","a","y","e","r">>
    /\ methods_data[1].is_list
    /\ methods_data[2].url = <<"/",":","u","s","e","r","I","D","/","m","a","p","s">>
    /\ methods_data[2].params # <<>>
    /\ methods_data[2].is_list

\* C3: an endpoint whose detail section is missing or has no response-model
\* heading is untyped, whatever its path: model Any, single, return type
\* "Any | None".
C3_Untyped ==
    \A i \in DOMAIN methods_data :
        ~Typed(doc_nav[i]) =>
            /\ methods_data[i].model_name = <<"A","n","y">>
            /\ ~methods_data[i].is_list
            /\ methods_data[i].return_type = <<"A","n","y"," ","|"," ","N","o","n","e">>

\* an untyped endpoint without parameters (section missing) and one with a
\* trigger word (section without heading)
C3_Witness ==
    /\ Len(methods_data) = 2
    /\ ~doc_nav[1].has_section
    /\ methods_data[1].params = <<>>
    /\ doc_nav[2].has_section /\ doc_nav[2].section_models = <<>>
    /\ \E w \in TriggerWords : Contains(methods_data[2].url, w)
    /\ ~methods_data[1].is_list /\ ~methods_data[2].is_list

----------------------------------------------------------------------------
(* Claims about the schema extractor and the whole run                     *)

RawNames(headings) == {str_strip(headings[i].label) : i \in DOMAIN headings}

\* the first heading of the page with the raw name r
FirstHeading(headings, r) ==
    headings[CHOOSE i \in DOMAIN headings :
                /\ str_strip(headings[i].label) = r
                /\ \A j \in 1..(i - 1) : str_strip(headings[j].label) # r]

\* the raw names that several headings of the page carry
RepeatedNames(headings) ==
    {r \in RawNames(headings) :
        Cardinality({i \in DOMAIN headings : str_strip(headings[i].label) = r}) > 1}

\* C4: model deduplication is first-seen-wins: for every raw name carried by
\* several headings of the page exactly one model definition is produced,
\* with the fields of the first such heading, and no raw name is produced
\* twice.
C4_FirstSeenWins ==
    pc = "methods" =>
        /\ \A i, j \in DOMAIN model_definitions :
              model_definitions[i].raw_name = model_definitions[j].raw_name
                  => i = j
        /\ \A r \in RepeatedNames(doc_headings) :
            LET produced == {i \in DOMAIN model_definitions :
                                model_definitions[i].raw_name = r}
            IN  /\ Cardinality(produced) = 1
                /\ \A i \in produced :
                      model_definitions[i].fields
                          = ModelCodeOf[FirstHeading(doc_headings, r)].fields

\* the raw names of the surviving models in document order: the headings
\* that are the first of their raw name and have a field container
RECURSIVE SurvivingNames(_, _)
SurvivingNames(headings, i) ==
    IF i > Len(headings) THEN <<>>
    ELSE (IF /\ headings[i].has_container
             /\ \A j \in 1..(i - 1) :
                   str_strip(headings[j].label) # str_strip(headings[i].label)
          THEN <<str_strip(headings[i].label)>> ELSE <<>>)
         \o SurvivingNames(headings, i + 1)

----------------------------------------------------------------------------
(* Specification of to_pascal_case: a raw model name is turned into a      *)
(* class name.                                                             *)

TypeNameChars == {"a", "B", "6", "_", "-"}

SampleTypeNames == {
    <<"_","b","t","d","6","_","r","a","c","e">>,
    <<"_","b","t","d","6","r","a","c","e">>,
    <<"b","a","t","t","l","e","s","2","_","h","o","m">>,
    <<"_","_","b","a","t","t","l","e","s","2","-","u","s","e","r","P","r","o","f","i","l","e">>,
    <<"m","y","_","b","t","d","6","R","a","c","e">> }

TypeNameInputs == StringsUpTo(TypeNameChars, MaxNameLen) \cup SampleTypeNames

InitTypeName ==
    /\ pc = "start"
    /\ name \in TypeNameInputs
    /\ snake = Unused /\ snake2 = Unused
    /\ type_name = <<>>
    /\ TypeUnused /\ GenUnused
    /\ SchemaUnused /\ WrapperUnused
    /\ ExtraUnused

ToTypeName ==
    /\ pc = "start"
    /\ type_name' = to_pascal_case(name)
    /\ pc' = "named"
    /\ UNCHANGED <<name, snake, snake2, typeVars, genVars,
                   schemaVars, wrapperVars, extraVars>>

NextTypeName == ToTypeName

SpecTypeName == InitTypeName /\ [][NextTypeName]_vars

\* the characters of s from position i on, separators left out, the first
\* character of every segment in upper case and the others in lower case
RECURSIVE TitleCased(_, _)
TitleCased(s, i) ==
    IF i > Len(s) THEN <<>>
    ELSE IF s[i] \in {"_", "-"} THEN TitleCased(s, i + 1)
    ELSE (IF i = 1 \/ s[i - 1] \in {"_", "-"}
          THEN <<UpperChar(s[i])>> ELSE <<LowerChar(s[i])>>)
         \o TitleCased(s, i + 1)

\* s without its leading private markers
RECURSIVE WithoutMarkers(_)
WithoutMarkers(s) ==
    IF s # <<>> /\ s[1] = "_" THEN WithoutMarkers(Tail(s)) ELSE s

StartsWith(s, prefix) == MatchAt(s, 1, prefix)

\* C11: to_type_name gives a result for every string: the leading private
\* markers are stripped, every underscore- or hyphen-delimited segment is
\* title-cased and the segments are concatenated; a name that starts with
\* btd6 or battles2 gives a type name that starts with Btd6 or Battles2;
\* _btd6_race yields Btd6Race.
C11_TypeName ==
    pc = "named" =>
        /\ type_name = TitleCased(WithoutMarkers(name), 1)
        /\ StartsWith(WithoutMarkers(name), <<"b","t","d","6">>)
              => StartsWith(type_name, <<"B","t","d","6">>)
        /\ StartsWith(WithoutMarkers(name), <<"b","a","t","t","l","e","s","2">>)
              => StartsWith(type_name, <<"B","a","t","t","l","e","s","2">>)
        /\ name = <<"_","b","t","d","6","_","r","a","c","e">> => type_name = <<"B","t","d","6","R","a","c","e">>

\* a name with two private markers, a domain prefix, a hyphen and a capital
\* inside a segment
C11_Witness ==
    /\ pc = "named"
    /\ name = <<"_","_","b","a","t","t","l","e","s","2","-","u","s","e","r","P","r","o","f","i","l","e">>
    /\ type_name = <<"B","a","t","t","l","e","s","2","U","s","e","r","p","r","o","f","i","l","e">>

----------------------------------------------------------------------------
(* generate_pydantic_models on its own, over pages whose model names are   *)
(* close to one another                                                    *)

InitSchema ==
    /\ pc = "models"
    /\ GenIdle
    /\ NormUnused /\ TypeUnused
    /\ SchemaUnused /\ WrapperUnused
    /\ ExtraUnused

ExtractModel == ModelStepFrom(SchemaHeadings, MaxHeadings)

NextSchema == ExtractModel \/ ModelsDone

SpecSchema == InitSchema /\ [][NextSchema]_vars

\* C12: class_name is collision-free: two model definitions of one
\* extraction pass with different raw_name never get the same class_name.
C12_ClassNamesCollisionFree ==
    \A i, j \in DOMAIN model_definitions :
        model_definitions[i].raw_name # model_definitions[j].raw_name
            => model_definitions[i].class_name # model_definitions[j].class_name

----------------------------------------------------------------------------
(* The row loop of generate_pydantic_models on its own: the fields of one  *)
(* field container                                                         *)

MaxRows == 3

\* rows of a field table: padded column texts, private and public fields of
\* one base name, a public field whose name ends in Data, rows of one, two,
\* three and four columns
FieldRows == {
    << <<" ","i","d"," ">>, <<"T","h","e"," "," ","r","a","c","e"," ","i","d">>, <<"s","t","r","i","n","g">> >>,
    << <<"_","i","d">>, <<>>, <<"n","u","m","b","e","r">> >>,
    << <<"i","d","D","a","t","a">>, <<"p","u","b","l","i","c">>, <<"o","b","j","e","c","t">> >>,
    << <<"t","o","t","a","l","S","c","o","r","e","s">>, <<" ","s","c","o","r","e","s"," ">>, <<" ","N","u","m","b","e","r">> >>,
    << <<"_","t","o","t","a","l","S","c","o","r","e","s">>, <<"x">>, <<"O","P","E","N",","," ","C","L","O","S","E","D">> >>,
    << <<"d","e","c","o","r","a","t","i","v","e">> >>,
    << <<"n","a","m","e">>, <<"t","w","o"," ","c","o","l","u","m","n","s">> >>,
    << <<"n","a","m","e">>, <<"f","o","u","r"," ","c","o","l","u","m","n","s">>, <<"b","o","o","l","e","a","n">>, <<"e","x","t","r","a">> >> }

RECURSIVE TablesUpTo(_)
TablesUpTo(n) ==
    IF n = 0 THEN {<<>>}
    ELSE LET shorter == TablesUpTo(n - 1)
         IN  shorter \cup {Append(t, r) : t \in {u \in shorter : Len(u) = n - 1},
                                          r \in FieldRows}

InitFields ==
    /\ pc = "rows"
    /\ field_rows \in TablesUpTo(MaxRows)
    /\ fields = <<>>
    /\ NormUnused /\ TypeUnused /\ GenUnused
    /\ WrapperUnused
    /\ ExtraUnused

\* the loop over field_rows of one container
ExtractFields ==
    /\ pc = "rows"
    /\ fields' = fields_data(field_rows)
    /\ pc' = "fields"
    /\ UNCHANGED <<field_rows, normVars, typeVars, genVars, wrapperVars, extraVars>>

NextFields == ExtractFields

SpecFields == InitFields /\ [][NextFields]_vars

HasThreeColumns(row) == Len(row) >= 3

\* the rows that carry a field, in row order
SourceRows(rows) == SelectSeq(rows, HasThreeColumns)

\* t is text without the whitespace around it
TrimOf(text, t) ==
    /\ Trimmed(t)
    /\ \E i \in 1..(Len(text) + 1) :
          /\ MatchAt(text, i, t)
          /\ \A k \in DOMAIN text :
                (k < i \/ k > i + Len(t) - 1) => text[k] \in Whitespace

Extracted == pc = "fields"

\* C13 as stated: the wire alias of every field is exactly the text of the
\* first column of its source row, unmodified.
C13_AliasUnmodified ==
    Extracted =>
        /\ Len(fields) = Len(SourceRows(field_rows))
        /\ \A i \in DOMAIN fields :
              fields[i].alias = SourceRows(field_rows)[i][1]

\* C13, amended: the wire alias of every field is the text of the first
\* column of its source row without the whitespace around it, and otherwise
\* unmodified: no case conversion, marker stripping or suffix.
C13_AliasTrimmed ==
    Extracted =>
        /\ Len(fields) = Len(SourceRows(field_rows))
        /\ \A i \in DOMAIN fields :
              TrimOf(SourceRows(field_rows)[i][1], fields[i].alias)

\* a padded first column, and a private camel-case name whose alias keeps its
\* marker and its capitals while the target name does not
C13_Witness ==
    /\ Extracted
    /\ field_rows = << << <<" ","i","d"," ">>, <<"T","h","e"," "," ","r","a","c","e"," ","i","d">>, <<"s","t","r","i","n","g">> >>,
                       << <<"_","t","o","t","a","l","S","c","o","r","e","s">>, <<"x">>, <<"O","P","E","N",","," ","C","L","O","S","E","D">> >> >>
    /\ fields[1].alias = <<"i","d">>
    /\ fields[2].alias = <<"_","t","o","t","a","l","S","c","o","r","e","s">>
    /\ fields[2].name = <<"t","o","t","a","l","_","s","c","o","r","e","s","_","d","a","t","a">>

Private(alias) == alias # <<>> /\ alias[1] = "_"

\* C14: a field whose wire alias carries the private marker prefix gets the
\* suffix _data on its target name, and within one model a private field _x
\* and a public field x never receive the same target name.
C14_PrivateSuffix ==
    Extracted =>
        /\ \A i \in DOMAIN fields :
              Private(fields[i].alias) => EndsWith(fields[i].name, <<"_","d","a","t","a">>)
        /\ \A i, j \in DOMAIN fields :
              fields[i].alias = <<"_">> \o fields[j].alias
                  => fields[i].name # fields[j].name

\* the private field _id next to the public field id
C14_Witness ==
    /\ Extracted
    /\ Len(fields) = 2
    /\ fields[1].alias = <<"_","i","d">> /\ fields[1].name = <<"i","d","_","d","a","t","a">>
    /\ fields[2].alias = <<"i","d">> /\ fields[2].name = <<"i","d">>

NonBlank(s) == SelectSeq(s, LAMBDA c : c \notin Whitespace)

\* C15: a row with fewer than three columns contributes no field, and every
\* row with three or more columns contributes exactly one field, taken from
\* its first (alias), second (description) and third (type) column, in row
\* order.
C15_RowsToFields ==
    Extracted =>
        /\ Len(fields) = Cardinality({k \in DOMAIN field_rows :
                                         Len(field_rows[k]) >= 3})
        /\ \A i \in DOMAIN fields :
              LET row == SourceRows(field_rows)[i]
              IN  /\ NonBlank(fields[i].alias) = NonBlank(row[1])
                  /\ NonBlank(row[2]) # <<>> =>
                        NonBlank(fields[i].description) = NonBlank(row[2])
                  /\ NonBlank(row[2]) = <<>> =>
                        fields[i].description = <<"N","o"," ","d","e","s","c","r","i","p","t","i","o","n"," ","a","v","a","i","l","a","b","l","e",".">>
                  /\ fields[i].type_hint = map_type_hint(row[3])

\* a table with rows of one, three and four columns
C15_Witness ==
    /\ Extracted
    /\ Len(field_rows) = 3
    /\ Len(field_rows[1]) = 1 /\ Len(field_rows[2]) = 4 /\ Len(field_rows[3]) = 3
    /\ Len(fields) = 2
    /\ fields[1].alias = <<"n","a","m","e">> /\ fields[1].type_hint.hint = "bool"
    /\ fields[2].alias = <<"_","i","d">> /\ fields[2].description = <<"N","o"," ","d","e","s","c","r","i","p","t","i","o","n"," ","a","v","a","i","l","a","b","l","e",".">>

----------------------------------------------------------------------------
(* Claims about path parameters and the path template                      *)

\* the names between "{" and "}" of a template, read left to right from
\* position i
RECURSIVE Placeholders(_, _)
Placeholders(t, i) ==
    IF i > Len(t) THEN <<>>
    ELSE IF t[i] = "{"
         THEN LET closing == {k \in (i + 1)..Len(t) : t[k] = "}"}
              IN  IF closing = {} THEN <<>>
                  ELSE LET e == CHOOSE k \in closing : \A l \in closing : k <= l
                       IN  <<SubSeq(t, i + 1, e - 1)>> \o Placeholders(t, e + 1)
         ELSE Placeholders(t, i + 1)

\* the path segments, parameter segments replaced by a hole
RECURSIVE Segments(_)
Segments(t) ==
    LET slashes == {i \in DOMAIN t : t[i] = "/"}
        hole(seg) == IF seg # <<>> /\ seg[1] \in {":", "{"} THEN <<"*">> ELSE seg
    IN  IF slashes = {} THEN <<hole(t)>>
        ELSE LET p == CHOOSE i \in slashes : \A j \in slashes : i <= j
             IN  <<hole(SubSeq(t, 1, p - 1))>> \o Segments(SubSeq(t, p + 1, Len(t)))

\* C16: path_params lists the normalized parameter names left to right, and
\* the path template is the path with each parameter marker replaced by the
\* placeholder of its normalized name: the placeholders of the template are
\* exactly path_params, no ':' marker remains and the other segments are
\* unchanged.
C16_TemplateMatchesParams ==
    \A i \in DOMAIN methods_data :
        LET m == methods_data[i]
            path == doc_nav[i].title
        IN  /\ Placeholders(m.endpoint_fstring, 1) = m.params
            /\ ":" \notin Chars(m.endpoint_fstring)
            /\ Segments(m.endpoint_fstring) = Segments(strip_chars(path, {"/"}))

----------------------------------------------------------------------------
(* The emitted client: NinjaKiwiAPI of src/btd6_api_wrapper.py             *)
(*                                                                         *)
(* A Python value is a record tagged with its type: None, a str, a list,   *)
(* a dict (a function from its keys) or a pydantic model instance.         *)

PyNone == [t |-> "None"]
PyStr(s) == [t |-> "str", s |-> s]
PyList(items) == [t |-> "list", items |-> items]
PyDict(d) == [t |-> "dict", d |-> d]

\* the content of a response that is not JSON
NotJson == [t |-> "text"]

\* bool(v)
truthy(v) ==
    CASE v.t = "None" -> FALSE
      [] v.t = "str" -> v.s # ""
      [] v.t = "list" -> v.items # <<>>
      [] v.t = "dict" -> DOMAIN v.d # {}
      [] OTHER -> TRUE

\* v.get(key) of a dict v
dict_get(v, key) == IF key \in DOMAIN v.d THEN v.d[key] ELSE PyNone

\* how a call ends, and the number of diagnostics it printed
Return(v, n) == [kind |-> "return", value |-> v, printed |-> n]
Raise(exc, n) == [kind |-> "raise", exc |-> exc, printed |-> n]

\* raise_for_status() passes
is_success(status) == 200 <= status /\ status <= 299

\* a slip: the error entry of the envelope is not looked at
get_request_IgnoreError(resp) ==
    IF resp.kind = "RequestError" THEN Return(PyNone, 1)
    ELSE IF ~is_success(resp.status) THEN Return(PyNone, 1)
    ELSE IF resp.content = NotJson THEN Return(PyNone, 1)
    ELSE LET data == resp.content
         IN  IF data.t # "dict" THEN Raise("AttributeError", 0)
             ELSE Return(dict_get(data, "body"), 0)

\* NinjaKiwiAPI._get_request for a request that comes to resp
get_request(resp) ==
    IF resp.kind = "RequestError" THEN Return(PyNone, 1)
    ELSE IF ~is_success(resp.status) THEN Return(PyNone, 1)
    ELSE IF resp.content = NotJson THEN Return(PyNone, 1)
    ELSE LET data == resp.content
         IN  IF truthy(data) /\ data.t # "dict"
             THEN Raise("AttributeError", 0)
             ELSE IF truthy(data) /\ truthy(dict_get(data, "error"))
             THEN Return(PyNone, 1)
             ELSE IF data.t # "dict" THEN Raise("AttributeError", 0)
             ELSE Return(dict_get(data, "body"), 0)

\* the fields of the models that are typed str | None
StrFields == {"id", "name"}

\* Model.model_validate(item) does not raise ValidationError
validates(item) ==
    /\ item.t = "dict"
    /\ \A k \in DOMAIN item.d \cap StrFields : item.d[k].t \in {"str", "None"}

\* the instance that Model.model_validate(item) returns
model_validate(cls, item) == [t |-> "model", cls |-> cls, data |-> item]

\* instance.key
attr(instance, key) == dict_get(instance.data, key)

\* a slip: the elements that do not validate are left out of the list
validate_list_Partial(cls, items) ==
    LET good == SelectSeq(items, validates)
    IN  Return(PyList([i \in DOMAIN good |-> model_validate(cls, good[i])]), 0)

\* [Model.model_validate(item) for item in body] inside try/except
validate_list(cls, items) ==
    IF \A i \in DOMAIN items : validates(items[i])
    THEN Return(PyList([i \in DOMAIN items |-> model_validate(cls, items[i])]), 0)
    ELSE Return(PyNone, 1)

\* a slip: the test `not body` is left out
typed_list_EmptyAllowed(cls, raw) ==
    IF raw.t # "list" THEN Return(PyNone, 0)
    ELSE validate_list(cls, raw.items)

\* the part of a collection endpoint method after _get_request returned raw
typed_list(cls, raw) ==
    IF ~truthy(raw) \/ raw.t # "list" THEN Return(PyNone, 0)
    ELSE validate_list(cls, raw.items)

\* the part of a single endpoint method after _get_request returned raw
typed_single(cls, raw) ==
    IF ~truthy(raw) \/ raw.t # "dict" THEN Return(PyNone, 0)
    ELSE IF validates(raw) THEN Return(model_validate(cls, raw), 0)
    ELSE Return(PyNone, 1)

get_btd6_races(raw) == typed_list("Btd6race", raw)

get_btd6_races_by_race_id_leaderboard(raw) ==
    typed_list("Btd6raceleaderboard", raw)

get_btd6_races_by_race_id_metadata(raw) ==
    typed_single("Btd6challengedocument", raw)

\* the part of the endpoint method m after _get_request returned raw
handle_body(m, raw) ==
    CASE m = "get_btd6_races" -> get_btd6_races(raw)
      [] m = "get_btd6_races_by_race_id_leaderboard" ->
            get_btd6_races_by_race_id_leaderboard(raw)
      [] m = "get_btd6_races_by_race_id_metadata" ->
            get_btd6_races_by_race_id_metadata(raw)

\* the result of a whole call of the endpoint method m: an exception of
\* _get_request passes through it
call(m, resp) ==
    LET r == get_request(resp)
    IN  IF r.kind = "raise" THEN r
        ELSE LET h == handle_body(m, r.value)
             IN  [h EXCEPT !.printed = @ + r.printed]

(* what the server can send *)

MaxItems == 2

ItemDicts == {
    PyDict([id |-> PyStr("a")]),
    PyDict([id |-> PyStr("b")]),
    PyDict([id |-> PyList(<<>>)]),
    PyDict([k \in {} |-> PyNone]) }

Items == ItemDicts \cup {PyStr("x")}

RECURSIVE ItemLists(_)
ItemLists(n) ==
    IF n = 0 THEN {<<>>}
    ELSE LET shorter == ItemLists(n - 1)
         IN  shorter \cup {Append(l, i) : l \in {u \in shorter : Len(u) = n - 1},
                                          i \in Items}

BodyValues ==
    {PyNone, PyStr("x")} \cup ItemDicts \cup {PyList(l) : l \in ItemLists(MaxItems)}

ErrorValues == {PyNone, PyStr(""), PyStr("Invalid race ID")}

\* marks a key that the envelope does not have
Absent == [t |-> "absent"]

Envelope(error, body_value) ==
    LET keys == (IF error = Absent THEN {} ELSE {"error"})
                \cup (IF body_value = Absent THEN {} ELSE {"body"})
    IN  PyDict([k \in keys |-> IF k = "error" THEN error ELSE body_value])

Envelopes ==
    {Envelope(e, b) : e \in ErrorValues \cup {Absent}, b \in BodyValues \cup {Absent}}

JsonValues ==
    Envelopes \cup {PyNone, PyStr("x"), PyList(<<>>), PyList(<<PyStr("x")>>)}

HttpStatuses == {200, 404, 500}

Responses ==
    {[kind |-> "RequestError"]}
    \cup [kind : {"response"}, status : HttpStatuses,
          content : JsonValues \cup {NotJson}]

ClientMethods == {"get_btd6_races", "get_btd6_races_by_race_id_metadata"}

\* a local that is not bound yet
Unbound == [t |-> "unbound"]

InitClient ==
    /\ pc = "idle"
    /\ method = "" /\ response = Unbound /\ body = Unbound /\ result = Unbound
    /\ printed = 0
    /\ NormUnused /\ TypeUnused /\ GenUnused
    /\ SchemaUnused /\ MainUnused
    /\ ExtraUnused

\* the caller calls one of the endpoint methods
Call ==
    /\ pc = "idle"
    /\ \E m \in ClientMethods : method' = m
    /\ pc' = "request"
    /\ UNCHANGED <<response, body, result, printed, normVars, typeVars,
                   genVars, schemaVars, mainVars, extraVars>>

\* body = await self._get_request(endpoint)
GetRequest ==
    /\ pc = "request"
    /\ \E resp \in Responses :
          LET r == get_request(resp)
          IN  /\ response' = resp
              /\ printed' = printed + r.printed
              /\ IF r.kind = "raise"
                 THEN /\ result' = [kind |-> "raise", exc |-> r.exc]
                      /\ pc' = "raised"
                      /\ UNCHANGED body
                 ELSE /\ body' = r.value
                      /\ pc' = "body"
                      /\ UNCHANGED result
    /\ UNCHANGED <<method, normVars, typeVars, genVars, schemaVars, mainVars, extraVars>>

\* the rest of the endpoint method: the checks on body and the validation
HandleBody ==
    /\ pc = "body"
    /\ LET r == handle_body(method, body)
       IN  /\ result' = [kind |-> "return", value |-> r.value]
           /\ printed' = printed + r.printed
    /\ pc' = "returned"
    /\ UNCHANGED <<method, response, body, normVars, typeVars, genVars,
                   schemaVars, mainVars, extraVars>>

NextClient == Call \/ GetRequest \/ HandleBody

SpecClient == InitClient /\ [][NextClient]_vars

(* Claims about the emitted client *)

\* the response is an envelope: a 2xx response whose content is a JSON object
IsEnvelope(resp) ==
    resp.kind = "response" /\ is_success(resp.status) /\ resp.content.t = "dict"

\* _get_request has just returned
Fetched == pc = "body"

\* C17 as stated: a response is successful only when the status is 2xx and
\* the envelope has no error key; whenever the envelope contains an error
\* key, _get_request reports failure without returning the body.
C17_NoErrorKey ==
    Fetched =>
        /\ body # PyNone =>
              IsEnvelope(response) /\ "error" \notin DOMAIN response.content.d
        /\ (IsEnvelope(response) /\ "error" \in DOMAIN response.content.d) =>
              body = PyNone /\ printed = 1

\* the envelope carries an error value that is neither null nor empty
ErrorSet(resp) ==
    /\ "error" \in DOMAIN resp.content.d
    /\ resp.content.d["error"] \notin {PyNone, PyStr("")}

\* C17, amended: a response is successful only when the status is 2xx and
\* the envelope carries no error value other than null or an empty one;
\* whenever the envelope carries such an error value, _get_request prints a
\* diagnostic and returns None, whatever the body of the envelope is.
C17_ErrorValue ==
    Fetched =>
        /\ body # PyNone => IsEnvelope(response) /\ ~ErrorSet(response)
        /\ (IsEnvelope(response) /\ ErrorSet(response)) =>
              body = PyNone /\ printed = 1

\* an envelope with an error message and a body of one good element
C17_Witness ==
    /\ Fetched
    /\ response = [kind |-> "response", status |-> 200,
                   content |-> PyDict([error |-> PyStr("Invalid race ID"),
                                       body |-> PyList(<<PyDict([id |-> PyStr("a")])>>)])]
    /\ body = PyNone
    /\ printed = 1

\* the request failed or the status is not 2xx
FetchFailure(resp) ==
    resp.kind = "RequestError" \/ ~is_success(resp.status)

\* the content is not JSON, or not a JSON object
DecodeFailure(resp) ==
    /\ resp.kind = "response" /\ is_success(resp.status)
    /\ resp.content.t # "dict"

Completed == pc \in {"returned", "raised"}

\* C18: a call on the emitted client never raises to its caller: every
\* fetch failure and every decode failure (content that is not JSON or not
\* the envelope, such as null or a list) gives None after a diagnostic.
C18_NeverRaises ==
    Completed =>
        /\ result.kind # "raise"
        /\ (FetchFailure(response) \/ DecodeFailure(response)) =>
              /\ result = [kind |-> "return", value |-> PyNone]
              /\ printed >= 1

\* the records a caller finds in the result of a collection endpoint
Records(value) == IF value = PyNone THEN <<>> ELSE value.items

\* C19: result handling is all-or-nothing.  A collection endpoint returns
\* None when the body is absent or not a sequence, and otherwise one record
\* per body element in body order when all elements validate, and None when
\* some element does not: never a partial list.  A single endpoint returns
\* None when the body is absent or not a keyed structure, and otherwise one
\* record of the body or None.
C19_AllOrNothing ==
    pc = "returned" =>
        IF method = "get_btd6_races"
        THEN IF body.t # "list" THEN result.value = PyNone
             ELSE IF \A i \in DOMAIN body.items : validates(body.items[i])
             THEN /\ result.value \in {PyNone, PyList(Records(result.value))}
                  /\ result.value = PyNone => body.items = <<>>
                  /\ Len(Records(result.value)) = Len(body.items)
                  /\ \A i \in DOMAIN body.items :
                        /\ Records(result.value)[i].t = "model"
                        /\ Records(result.value)[i].data = body.items[i]
             ELSE result.value = PyNone
        ELSE IF body.t # "dict" THEN result.value = PyNone
             ELSE \/ result.value = PyNone
                  \/ /\ result.value.t = "model"
                     /\ result.value.data = body
                     /\ validates(body)

\* a body of two good elements gives their two records in body order
C19_Witness ==
    /\ pc = "returned"
    /\ method = "get_btd6_races"
    /\ body = PyList(<<PyDict([id |-> PyStr("b")]), PyDict([id |-> PyStr("a")])>>)
    /\ Len(result.value.items) = 2
    /\ attr(result.value.items[1], "id") = PyStr("b")
    /\ attr(result.value.items[2], "id") = PyStr("a")

----------------------------------------------------------------------------
(* The entry point of the emitted client: main                             *)

\* how an awaited call of an endpoint method can end: with the result of the
\* method for some response, or with the cancellation of the task
Outcomes(m) ==
    {call(m, resp) : resp \in Responses} \cup {Raise("CancelledError", 0)}

RacesOutcomes == Outcomes("get_btd6_races")

LeaderboardOutcomes == Outcomes("get_btd6_races_by_race_id_leaderboard")

\* a slip: api.close() follows the try body in place of a finally clause
finally_block_NormalExitOnly(n, exc) == IF exc = "" THEN n + 1 ELSE n

\* the number of close() calls after the finally clause ran, n before it;
\* exc is the exception that is propagating, "" for none
finally_block(n, exc) == n + 1

\* races and len(races) > 0, and latest_race.id
has_latest_id(value) ==
    /\ truthy(value) /\ Len(value.items) > 0
    /\ truthy(attr(value.items[1], "id"))

InitMain ==
    /\ pc = "main"
    /\ races = Unbound /\ leaderboard = Unbound
    /\ in_progress = 0 /\ closed = 0 /\ raised = ""
    /\ NormUnused /\ TypeUnused /\ GenUnused
    /\ SchemaUnused /\ ClientUnused
    /\ ExtraUnused

\* api = NinjaKiwiAPI() and the entry into the try block
Construct ==
    /\ pc = "main"
    /\ pc' = "try"
    /\ UNCHANGED <<mainVars, normVars, typeVars, genVars, schemaVars,
                   clientVars, extraVars>>

\* api.get_btd6_races() is called and main waits for it
CallRaces ==
    /\ pc = "try"
    /\ in_progress' = in_progress + 1
    /\ pc' = "await_races"
    /\ UNCHANGED <<races, leaderboard, closed, raised, normVars, typeVars,
                   genVars, schemaVars, clientVars, extraVars>>

\* the call ends: races is bound, or an exception propagates
RacesDone ==
    /\ pc = "await_races"
    /\ in_progress' = in_progress - 1
    /\ \E o \in RacesOutcomes :
          IF o.kind = "raise"
          THEN /\ raised' = o.exc
               /\ pc' = "finally"
               /\ UNCHANGED races
          ELSE /\ races' = o.value
               /\ pc' = IF has_latest_id(o.value) THEN "leaderboard"
                        ELSE "finally"
               /\ UNCHANGED raised
    /\ UNCHANGED <<leaderboard, closed, normVars, typeVars, genVars,
                   schemaVars, clientVars, extraVars>>

\* api.get_btd6_races_by_race_id_leaderboard(...) is called
CallLeaderboard ==
    /\ pc = "leaderboard"
    /\ in_progress' = in_progress + 1
    /\ pc' = "await_leaderboard"
    /\ UNCHANGED <<races, leaderboard, closed, raised, normVars, typeVars,
                   genVars, schemaVars, clientVars, extraVars>>

\* the call ends: leaderboard is bound, or an exception propagates
LeaderboardDone ==
    /\ pc = "await_leaderboard"
    /\ in_progress' = in_progress - 1
    /\ \E o \in LeaderboardOutcomes :
          IF o.kind = "raise"
          THEN /\ raised' = o.exc
               /\ UNCHANGED leaderboard
          ELSE /\ leaderboard' = o.value
               /\ UNCHANGED raised
    /\ pc' = "finally"
    /\ UNCHANGED <<races, closed, normVars, typeVars, genVars, schemaVars,
                   clientVars, extraVars>>

\* the finally clause, then main returns or the exception leaves main
Finally ==
    /\ pc = "finally"
    /\ closed' = finally_block(closed, raised)
    /\ pc' = IF raised = "" THEN "returned" ELSE "propagated"
    /\ UNCHANGED <<races, leaderboard, in_progress, raised, normVars,
                   typeVars, genVars, schemaVars, clientVars, extraVars>>

NextMain ==
    \/ Construct
    \/ CallRaces
    \/ RacesDone
    \/ CallLeaderboard
    \/ LeaderboardDone
    \/ Finally

SpecMain == InitMain /\ [][NextMain]_vars

Exited == pc \in {"returned", "propagated"}

\* C20: in main the client connection is shut down exactly once, after every
\* call that was issued has completed, on every exit path: normal return,
\* absent results from either call, or an exception raised while a call is
\* in progress.
C20_ClosedOnce ==
    /\ closed \in {0, 1}
    /\ closed = 1 => in_progress = 0 /\ Exited
    /\ Exited => closed = 1

\* the first call returned a race, the leaderboard call raised
C20_Witness ==
    /\ pc = "propagated"
    /\ races # Unbound /\ has_latest_id(races)
    /\ leaderboard = Unbound
    /\ raised = "AttributeError"
    /\ closed = 1 /\ in_progress = 0

----------------------------------------------------------------------------
(* Claims about the generation run as a whole                              *)

\* the position of a stage in the order fetch, extract models, extract
\* endpoints, render, write
Stage(p) ==
    CASE p = "fetch" -> 0 [] p = "models" -> 1 [] p = "methods" -> 2
      [] p = "render" -> 3 [] p = "write" -> 4 [] p = "done" -> 5
      [] OTHER -> 6

Ended(p) == p \in {"aborted", "raised", "done"}

OneFetchOneWrite ==
    /\ fetches = (IF pc = "fetch" THEN 0 ELSE 1)
    /\ pc = "aborted" => written = <<>>
    /\ pc = "raised" => written = <<>>
    /\ written # <<>> =>
          /\ pc = "done"
          /\ written = <<output>>
          /\ output = [models |-> model_definitions,
                       methods |-> rendered_methods(methods_data)]

InStageOrder ==
    /\ ~Ended(pc)
    /\ pc' # pc =>
          \/ Stage(pc') = Stage(pc) + 1
          \/ pc = "fetch" /\ pc' = "aborted"
          \/ pc = "methods" /\ pc' = "raised"

\* C21: a generation run makes exactly one fetch attempt and is strictly
\* sequential (fetch, parse, extract, render, write): when the fetch fails
\* the run ends without retrying and without writing the output file, and
\* the file is written at most once, only after the fetch succeeded and
\* extraction and rendering completed.
C21_OneFetchInOrder == []OneFetchOneWrite /\ [][InStageOrder]_vars

\* the run that ended at the failed fetch
C21_Witness ==
    /\ pc = "aborted"
    /\ fetches = 1
    /\ written = <<>>

\* the navigation entries that have both a title and a description
WellFormed(entry) == "missing" \notin DOMAIN entry

\* C22: one malformed section never fails the whole extraction: for every
\* document the extractors run to completion and return the definitions of
\* all well-formed items, skipping only the affected item.
C22_ExtractionCompletes ==
    /\ pc # "raised"
    /\ Stage(pc) \in 3..5 =>
          Len(methods_data) =
              Cardinality({i \in DOMAIN doc_nav : WellFormed(doc_nav[i])})

----------------------------------------------------------------------------
(* Two calls on one client, interleaved at their awaits                    *)

CallIds == {1, 2}

\* what the server can send to the concurrent calls
ConcResponses == {
    [kind |-> "RequestError"],
    [kind |-> "response", status |-> 404, content |-> NotJson],
    [kind |-> "response", status |-> 200, content |-> PyNone],
    [kind |-> "response", status |-> 200,
     content |-> Envelope(PyStr("Invalid race ID"), PyNone)],
    [kind |-> "response", status |-> 200,
     content |-> Envelope(PyNone, PyList(<<PyDict([id |-> PyStr("a")])>>))],
    [kind |-> "response", status |-> 200,
     content |-> Envelope(PyNone, PyDict([id |-> PyStr("b")]))] }

\* the frame of a call that has not started
IdleFrame ==
    [pc |-> "idle", method |-> "", response |-> Unbound, body |-> Unbound,
     result |-> Unbound, gets |-> 0]

\* a slip: body is kept on the client, so a call reads what the call that
\* fetched last has stored
frame_body_OnClient(c, frames) ==
    LET others == {d \in CallIds \ {c} : frames[d].pc \in {"body", "returned"}}
    IN  IF others = {} THEN frames[c].body
        ELSE frames[CHOOSE d \in others : TRUE].body

\* body as the call c reads it: a local of its own frame
frame_body(c, frames) == frames[c].body

InitConcurrent ==
    /\ pc = "client"
    /\ calls = [c \in CallIds |-> IdleFrame]
    /\ NormUnused /\ TypeUnused /\ GenUnused
    /\ SchemaUnused /\ WrapperUnused
    /\ StoreUnused /\ ScraperUnused

\* the call c starts: one of the endpoint methods is entered
StartCall(c) ==
    /\ calls[c].pc = "idle"
    /\ \E m \in ClientMethods :
          calls' = [calls EXCEPT ![c].method = m, ![c].pc = "request"]
    /\ UNCHANGED <<pc, normVars, typeVars, genVars, schemaVars, wrapperVars,
                   storeVars, scraperVars>>

\* the await of _get_request in the call c ends
FrameGetRequest(c) ==
    /\ calls[c].pc = "request"
    /\ \E resp \in ConcResponses :
          LET r == get_request(resp)
          IN  calls' =
                 IF r.kind = "raise"
                 THEN [calls EXCEPT ![c].response = resp,
                                    ![c].gets = @ + 1,
                                    ![c].result = [kind |-> "raise", exc |-> r.exc],
                                    ![c].pc = "raised"]
                 ELSE [calls EXCEPT ![c].response = resp,
                                    ![c].gets = @ + 1,
                                    ![c].body = r.value,
                                    ![c].pc = "body"]
    /\ UNCHANGED <<pc, normVars, typeVars, genVars, schemaVars, wrapperVars,
                   storeVars, scraperVars>>

\* the rest of the endpoint method in the call c
FrameHandleBody(c) ==
    /\ calls[c].pc = "body"
    /\ LET r == handle_body(calls[c].method, frame_body(c, calls))
       IN  calls' = [calls EXCEPT
                        ![c].result = [kind |-> "return", value |-> r.value],
                        ![c].pc = "returned"]
    /\ UNCHANGED <<pc, normVars, typeVars, genVars, schemaVars, wrapperVars,
                   storeVars, scraperVars>>

NextConcurrent ==
    \E c \in CallIds : StartCall(c) \/ FrameGetRequest(c) \/ FrameHandleBody(c)

SpecConcurrent == InitConcurrent /\ [][NextConcurrent]_vars

\* what a call of the method m gives when it runs alone on the response resp
AloneResult(m, resp) ==
    LET r == call(m, resp)
    IN  IF r.kind = "raise" THEN [kind |-> "raise", exc |-> r.exc]
        ELSE [kind |-> "return", value |-> r.value]

----------------------------------------------------------------------------
(* TowerDataStore of src/tower_stats_server.py                             *)
(*                                                                         *)
(* self.towers is a dict: its values, in insertion order, are a sequence   *)
(* of towers with distinct ids.                                            *)

dart_monkey ==
    [id |-> <<"d","a","r","t","_","m","o","n","k","e","y">>, name |-> <<"D","a","r","t"," ","M","o","n","k","e","y">>, category |-> <<"P","r","i","m","a","r","y">>,
     description |-> <<"H","u","r","l","s"," ","s","h","a","r","p"," ","d","a","r","t","s"," ","t","h","a","t"," ","c","a","n"," ","p","o","p"," ","o","n","e"," ","b","l","o","o","n"," ","e","a","c","h",".">>,
     upgrades |-> << <<"S","h","a","r","p"," ","S","h","o","t","s">>, <<"R","a","z","o","r"," ","S","h","a","r","p"," ","S","h","o","t","s">> >>]

boomerang_monkey ==
    [id |-> <<"b","o","o","m","e","r","a","n","g","_","m","o","n","k","e","y">>, name |-> <<"B","o","o","m","e","r","a","n","g"," ","M","o","n","k","e","y">>,
     category |-> <<"P","r","i","m","a","r","y">>,
     description |-> <<"T","h","r","o","w","s"," ","b","o","o","m","e","r","a","n","g","s"," ","t","h","a","t"," ","t","r","a","v","e","l"," ","i","n"," ","a"," ","w","i","d","e"," ","a","r","c",","," ","p","o","p","p","i","n","g"," ","b","l","o","o","n","s"," ","a","l","o","n","g"," ","t","h","e"," ","w","a","y",".">>,
     upgrades |-> <<>>]

sniper_monkey ==
    [id |-> <<"s","n","i","p","e","r","_","m","o","n","k","e","y">>, name |-> <<"S","n","i","p","e","r"," ","M","o","n","k","e","y">>,
     category |-> <<"M","i","l","i","t","a","r","y">>,
     description |-> <<"L","o","n","g"," ","r","a","n","g","e"," ","s","n","i","p","e","r"," ","t","h","a","t"," ","c","a","n"," ","t","a","r","g","e","t"," ","a","n","y"," ","b","l","o","o","n"," ","o","n"," ","s","c","r","e","e","n",".">>,
     upgrades |-> <<>>]

\* a tower as a data file can hold it
ninja_monkey ==
    [id |-> <<"n","i","n","j","a","_","m","o","n","k","e","y">>, name |-> <<"N","i","n","j","a"," ","M","o","n","k","e","y">>, category |-> <<"M","a","g","i","c">>,
     description |-> <<"S","t","e","a","l","t","h","y"," ","t","o","w","e","r"," ","t","h","a","t"," ","c","a","n"," ","s","e","e"," ","C","a","m","o",".">>,
     upgrades |-> << <<"S","h","a","r","p"," ","S","h","u","r","i","k","e","n","s">> >>]

quincy == [id |-> <<"q","u","i","n","c","y">>, name |-> <<"Q","u","i","n","c","y">>]

\* a str argument
Text(s) == [t |-> "str", s |-> s]

\* a slip: the categories are compared as they are written
list_towers_CaseSensitive(store, category) ==
    IF category.t = "None" \/ category.s = <<>> THEN store
    ELSE SelectSeq(store, LAMBDA tw : tw.category = category.s)

\* TowerDataStore.list_towers(category) on the towers store
list_towers(store, category) ==
    IF category.t = "None" \/ category.s = <<>> THEN store
    ELSE SelectSeq(store,
                   LAMBDA tw : str_lower(tw.category) = str_lower(category.s))

\* a slip: the upgrades are not searched
search_towers_NoUpgrades(store, q) ==
    LET query == str_lower(q.s)
    IN  SelectSeq(store,
                  LAMBDA tw : \/ Contains(str_lower(tw.name), query)
                              \/ Contains(str_lower(tw.description), query))

\* TowerDataStore.search_towers(query) on the towers store
search_towers(store, q) ==
    LET query == str_lower(q.s)
    IN  SelectSeq(store,
                  LAMBDA tw : \/ Contains(str_lower(tw.name), query)
                              \/ Contains(str_lower(tw.description), query)
                              \/ \E u \in DOMAIN tw.upgrades :
                                    Contains(str_lower(tw.upgrades[u]), query))

MaxTowers == 3

TowerPool == {dart_monkey, boomerang_monkey, sniper_monkey, ninja_monkey}

\* the stores of at most n towers, ids distinct
RECURSIVE StoresUpTo(_)
StoresUpTo(n) ==
    IF n = 0 THEN {<<>>}
    ELSE LET shorter == StoresUpTo(n - 1)
         IN  shorter \cup
             {Append(st, tw) : st \in {u \in shorter : Len(u) = n - 1},
                               tw \in TowerPool} 

Stores ==
    {st \in StoresUpTo(MaxTowers) :
        \A i, j \in DOMAIN st : st[i].id = st[j].id => i = j}

Categories == {
    PyNone, Text(<<>>), Text(<<"P","r","i","m","a","r","y">>), Text(<<"p","r","i","m","a","r","y">>),
    Text(<<"M","I","L","I","T","A","R","Y">>), Text(<<"M","a","g","i","c">>), Text(<<"S","u","p","p","o","r","t">>), Text(<<"P","r","i","m">>) }

Queries == {
    Text(<<"s","h","a","r","p">>), Text(<<"S","H","A","R","P">>), Text(<<"M","o","n","k","e","y">>), Text(<<>>),
    Text(<<"z","z","z">>), Text(<<"s","n","i","p","e","r">>), Text(<<"s","h","u","r","i","k","e","n","s">>), Text(<<"d","a","r","t","s">>),
    Text(<<"D","a","r","t">>) }

InitStore ==
    /\ pc = "store"
    /\ towers \in Stores
    /\ heroes = <<quincy>>
    /\ arg = Unbound /\ results = Unbound
    /\ data_file = Unused /\ cursor = Unused
    /\ NormUnused /\ TypeUnused /\ GenUnused
    /\ SchemaUnused /\ WrapperUnused
    /\ ConcUnused /\ ScraperUnused

ListTowers ==
    /\ pc = "store"
    /\ \E category \in Categories :
          /\ arg' = category
          /\ results' = list_towers(towers, category)
    /\ pc' = "listed"
    /\ UNCHANGED <<towers, heroes, data_file, cursor, normVars, typeVars,
                   genVars, schemaVars, wrapperVars, concVars, scraperVars>>

SearchTowers ==
    /\ pc = "store"
    /\ \E query \in Queries :
          /\ arg' = query
          /\ results' = search_towers(towers, query)
    /\ pc' = "searched"
    /\ UNCHANGED <<towers, heroes, data_file, cursor, normVars, typeVars,
                   genVars, schemaVars, wrapperVars, concVars, scraperVars>>

NextStore == ListTowers \/ SearchTowers

SpecStore == InitStore /\ [][NextStore]_vars

\* the positions of the store named by the set keep, in store order
RECURSIVE InOrder(_, _)
InOrder(store, keep) ==
    IF keep = {} THEN <<>>
    ELSE LET first == CHOOSE i \in keep : \A j \in keep : i <= j
         IN  <<store[first]>> \o InOrder(store, keep \ {first})

\* the towers of the given category, letter case ignored
OfCategory(store, c) ==
    {i \in DOMAIN store : EqualsIgnoringCase(store[i].category, c)}

\* C24 as stated: list_towers(category) returns exactly the stored towers
\* whose category equals the given category ignoring letter case, in store
\* order, and every stored tower when called without a category.
C24_ListByCategory ==
    pc = "listed" =>
        results = IF arg = PyNone THEN towers
                  ELSE InOrder(towers, OfCategory(towers, arg.s))

ListedAsAmended ==
    pc = "listed" =>
        results = IF arg = PyNone \/ arg.s = <<>> THEN towers
                  ELSE InOrder(towers, OfCategory(towers, arg.s))

\* C24, amended: list_towers(category) returns exactly the stored towers
\* whose category equals the given category ignoring letter case, in store
\* order; called without a category or with the empty string it returns
\* every stored tower; the store's contents are unchanged by the call.
C24_ListByCategoryOrAll ==
    []ListedAsAmended /\ [][towers' = towers /\ heroes' = heroes]_vars

\* a category in another letter case picks the two Primary towers around a
\* Military one
C24_Witness ==
    /\ pc = "listed"
    /\ towers = <<dart_monkey, sniper_monkey, boomerang_monkey>>
    /\ arg = Text(<<"p","r","i","m","a","r","y">>)
    /\ results = <<dart_monkey, boomerang_monkey>>

\* the query occurs in the text, letter case ignored
Occurs(query, text) ==
    \E i \in 1..(Len(text) - Len(query) + 1) :
        \A k \in 1..Len(query) :
            LowerChar(text[i + k - 1]) = LowerChar(query[k])

Matching(store, query) ==
    {i \in DOMAIN store :
        \/ Occurs(query, store[i].name)
        \/ Occurs(query, store[i].description)
        \/ \E u \in DOMAIN store[i].upgrades :
              Occurs(query, store[i].upgrades[u])}

----------------------------------------------------------------------------
(* The endpoint loop of generate_api_wrapper in src/gen.py, the second     *)
(* generator of the source tree                                            *)

\* the list condition of generate_api_wrapper: the path is compared with
\* "/maps" as a whole
generate_api_wrapper_is_list(path) ==
    \/ ":" \notin Chars(path)
    \/ Contains(path, <<"l","e","a","d","e","r","b","o","a","r","d">>)
    \/ Contains(path, <<"f","i","l","t","e","r">>)
    \/ path = <<"/","m","a","p","s">>
    \/ Contains(path, <<"m","a","t","c","h","e","s">>)
    \/ Contains(path, <<"h","o","m","s">>)

\* the function name of generate_api_wrapper: underscores are stripped after
\* the runs of whitespace have been replaced
generate_api_wrapper_function_name(path) ==
    LET clean == str_replace(str_replace(path, <<"/">>, <<" ">>),
                             <<":">>, <<" ","b","y"," ">>)
    IN  to_snake_case(<<"g","e","t","_">> \o strip_chars(re_sub_spaces(clean, 1), {"_"}))

generate_api_wrapper_response_type(path, has_section, section_models) ==
    IF has_section /\ section_models # <<>>
    THEN LET model_name == to_pascal_case(str_strip(section_models[1]))
         IN  IF generate_api_wrapper_is_list(path)
             THEN [model_name |-> model_name,
                   return_type |-> <<"l","i","s","t","[">> \o model_name \o <<"]"," ","|"," ","N","o","n","e">>,
                   is_list |-> TRUE]
             ELSE [model_name |-> model_name,
                   return_type |-> model_name \o <<" ","|"," ","N","o","n","e">>,
                   is_list |-> FALSE]
    ELSE [model_name |-> <<"A","n","y">>, return_type |-> <<"A","n","y"," ","|"," ","N","o","n","e">>,
          is_list |-> FALSE]

\* what one pass of the endpoint loop of generate_api_wrapper derives for a
\* navigation entry
generate_api_wrapper_method(entry) ==
    LET path == str_strip(entry.title)
        rt == generate_api_wrapper_response_type(path, entry.has_section,
                                                 entry.section_models)
    IN  [name |-> generate_api_wrapper_function_name(path),
         url |-> path,
         params |-> path_params(path),
         endpoint_fstring |-> endpoint_fstring(path),
         return_type |-> rt.return_type,
         model_name |-> rt.model_name,
         is_list |-> rt.is_list]

\* C26: the two generators agree on endpoint extraction: for every endpoint
\* path with the same detail section, generate_api_wrapper derives the same
\* function name, parameter list, path template, response model and
\* cardinality as parse_api_methods.
C26_GeneratorsAgree ==
    \A i \in DOMAIN methods_data :
        methods_data[i] = generate_api_wrapper_method(doc_nav[i])

----------------------------------------------------------------------------
(* Claims about the order of recording and container lookup                *)

\* the first heading of the page with raw name r has no field container
FirstLacksContainer(headings, r) ==
    \E i \in DOMAIN headings :
        /\ model_name_raw(headings[i]) = r
        /\ ~headings[i].has_container
        /\ \A j \in 1..(i - 1) : model_name_raw(headings[j]) # r

\* C27: a heading's raw_name is recorded as processed before its field
\* container is looked up: a heading without a field container produces no
\* model, and every later heading with the same raw_name is discarded as
\* well, even when it has a field table, so the model is absent from the
\* output.
C27_RecordedBeforeLookup ==
    /\ \A i \in DOMAIN doc_headings :
          model_name_raw(doc_headings[i]) \in processed_models
    /\ \A r \in processed_models :
          FirstLacksContainer(doc_headings, r)
              => \A k \in DOMAIN model_definitions :
                    model_definitions[k].raw_name # r

\* a heading without a container, then one of the same name with a field
\* table: the loop is over and no model was produced
C27_Witness ==
    /\ pc \in {"methods", "render", "write", "done"}
    /\ Len(doc_headings) = 2
    /\ model_name_raw(doc_headings[1]) = model_name_raw(doc_headings[2])
    /\ ~doc_headings[1].has_container
    /\ doc_headings[2].has_container /\ doc_headings[2].rows # <<>>
    /\ model_definitions = <<>>

----------------------------------------------------------------------------
(* Claims about the lists a collection endpoint returns                    *)

CollectionReturned == pc = "returned" /\ method = "get_btd6_races"

\* C28: a collection endpoint of the emitted client never returns an empty
\* list: when the body is an empty sequence the result is None, and every
\* list that is returned is non-empty and has the same length as the body.
C28_NeverEmptyList ==
    CollectionReturned =>
        /\ result.value # PyList(<<>>)
        /\ body = PyList(<<>>) => result.value = PyNone
        /\ result.value # PyNone =>
              /\ result.value.t = "list"
              /\ body.t = "list"
              /\ Len(result.value.items) >= 1
              /\ Len(result.value.items) = Len(body.items)

\* the server answers with an envelope whose body is the empty list
C28_Witness ==
    /\ CollectionReturned
    /\ IsEnvelope(response)
    /\ dict_get(response.content, "body") = PyList(<<>>)
    /\ body = PyList(<<>>)
    /\ result.value = PyNone

----------------------------------------------------------------------------
(* Construction of the TowerDataStore: __init__, _load_from_file and       *)
(* _load_sample_data                                                       *)

\* d[item.id] = item on a dict kept as the sequence of its values: a known
\* key keeps its place, a new key goes to the end
dict_put(d, item) ==
    IF \E i \in DOMAIN d : d[i].id = item.id
    THEN [i \in DOMAIN d |-> IF d[i].id = item.id THEN item ELSE d[i]]
    ELSE Append(d, item)

\* tower_data["name"].lower().replace(" ", "_").replace("-", "_")
tower_id(n) ==
    str_replace(str_replace(str_lower(n), <<" ">>, <<"_">>), <<"-">>, <<"_">>)

\* hero_data["name"].lower().replace(" ", "_")
hero_id(n) == str_replace(str_lower(n), <<" ">>, <<"_">>)

\* the Tower built from an entry of the file
tower_of(tower_data) ==
    [id |-> tower_id(tower_data.name), name |-> tower_data.name,
     category |-> tower_data.category,
     description |-> tower_data.description,
     upgrades |-> tower_data.upgrades]

\* the Hero built from an entry of the file
hero_of(hero_data) == [id |-> hero_id(hero_data.name), name |-> hero_data.name]

\* self.towers and self.heroes after _load_sample_data ran on them
sample_towers(d) ==
    dict_put(dict_put(dict_put(d, dart_monkey), boomerang_monkey), sniper_monkey)

sample_heroes(d) == dict_put(d, quincy)

MaxFileEntries == 2

\* tower entries of a data file: a tower the sample data does not have, an
\* entry with the name of a sample tower, an entry without "base_stats"
FileTowers == {
    [name |-> <<"N","i","n","j","a"," ","M","o","n","k","e","y">>, category |-> <<"M","a","g","i","c">>,
     description |-> <<"S","t","e","a","l","t","h","y"," ","t","o","w","e","r"," ","t","h","a","t"," ","c","a","n"," ","s","e","e"," ","C","a","m","o",".">>,
     upgrades |-> << <<"S","h","a","r","p"," ","S","h","u","r","i","k","e","n","s">> >>, complete |-> TRUE],
    [name |-> <<"D","a","r","t"," ","M","o","n","k","e","y">>, category |-> <<"P","r","i","m","a","r","y">>,
     description |-> <<"T","h","r","o","w","s"," ","a"," ","s","i","n","g","l","e"," ","d","a","r","t",".">>,
     upgrades |-> <<>>, complete |-> TRUE],
    [name |-> <<"I","c","e"," ","M","o","n","k","e","y">>, category |-> <<"P","r","i","m","a","r","y">>,
     description |-> <<"F","r","e","e","z","e","s"," ","n","e","a","r","b","y"," ","b","l","o","o","n","s",".">>,
     upgrades |-> <<>>, complete |-> FALSE] }

\* hero entries of a data file: a hero and an entry without "cost"
FileHeroes == {
    [name |-> <<"G","w","e","n","d","o","l","i","n">>, complete |-> TRUE],
    [name |-> <<"O","b","y","n"," ","G","r","e","e","n","f","o","o","t">>, complete |-> FALSE] }

RECURSIVE SeqsUpTo(_, _)
SeqsUpTo(elems, n) ==
    IF n = 0 THEN {<<>>}
    ELSE LET shorter == SeqsUpTo(elems, n - 1)
         IN  shorter \cup {Append(q, e) : q \in {u \in shorter : Len(u) = n - 1},
                                          e \in elems}

\* what the constructor can be given: no data file, the name of a file that
\* is not there, a file that is not JSON, a file with towers and heroes
DataFiles ==
    {[given |-> FALSE], [given |-> TRUE, exists |-> FALSE],
     [given |-> TRUE, exists |-> TRUE, json |-> FALSE]}
    \cup [given : {TRUE}, exists : {TRUE}, json : {TRUE},
          towers : SeqsUpTo(FileTowers, MaxFileEntries),
          heroes : SeqsUpTo(FileHeroes, MaxFileEntries)]

InitLoad ==
    /\ pc = "init"
    /\ data_file \in DataFiles
    /\ towers = <<>> /\ heroes = <<>>
    /\ cursor = 0
    /\ arg = Unused /\ results = Unused
    /\ NormUnused /\ TypeUnused /\ GenUnused
    /\ SchemaUnused /\ WrapperUnused
    /\ ConcUnused /\ ScraperUnused

loadUnchanged ==
    <<data_file, arg, results, normVars, typeVars, genVars, schemaVars,
      wrapperVars, concVars, scraperVars>>

\* _load_sample_data on the store as it is
LoadSampleData ==
    /\ towers' = sample_towers(towers)
    /\ heroes' = sample_heroes(heroes)
    /\ pc' = "sample"
    /\ UNCHANGED <<cursor, loadUnchanged>>

\* __init__ without a data file that exists
InitSample ==
    /\ pc = "init"
    /\ ~(data_file.given /\ data_file.exists)
    /\ LoadSampleData

\* __init__ with a data file: _load_from_file opens and decodes it
OpenFile ==
    /\ pc = "init"
    /\ data_file.given /\ data_file.exists
    /\ data_file.json
    /\ pc' = "towers" /\ cursor' = 1
    /\ UNCHANGED <<towers, heroes, loadUnchanged>>

\* json.load raises: the except branch of _load_from_file
OpenFails ==
    /\ pc = "init"
    /\ data_file.given /\ data_file.exists
    /\ ~data_file.json
    /\ LoadSampleData

\* one pass of the loop over the towers of the file
LoadTower ==
    /\ pc = "towers"
    /\ cursor <= Len(data_file.towers)
    /\ data_file.towers[cursor].complete
    /\ towers' = dict_put(towers, tower_of(data_file.towers[cursor]))
    /\ cursor' = cursor + 1
    /\ UNCHANGED <<pc, heroes, loadUnchanged>>

\* the pass raises (KeyError): the except branch of _load_from_file
LoadTowerFails ==
    /\ pc = "towers"
    /\ cursor <= Len(data_file.towers)
    /\ ~data_file.towers[cursor].complete
    /\ LoadSampleData

TowersLoaded ==
    /\ pc = "towers"
    /\ cursor > Len(data_file.towers)
    /\ pc' = "heroes" /\ cursor' = 1
    /\ UNCHANGED <<towers, heroes, loadUnchanged>>

\* one pass of the loop over the heroes of the file
LoadHero ==
    /\ pc = "heroes"
    /\ cursor <= Len(data_file.heroes)
    /\ data_file.heroes[cursor].complete
    /\ heroes' = dict_put(heroes, hero_of(data_file.heroes[cursor]))
    /\ cursor' = cursor + 1
    /\ UNCHANGED <<pc, towers, loadUnchanged>>

LoadHeroFails ==
    /\ pc = "heroes"
    /\ cursor <= Len(data_file.heroes)
    /\ ~data_file.heroes[cursor].complete
    /\ LoadSampleData

HeroesLoaded ==
    /\ pc = "heroes"
    /\ cursor > Len(data_file.heroes)
    /\ pc' = "loaded"
    /\ UNCHANGED <<towers, heroes, cursor, loadUnchanged>>

NextLoad ==
    \/ InitSample \/ OpenFile \/ OpenFails
    \/ LoadTower \/ LoadTowerFails \/ TowersLoaded
    \/ LoadHero \/ LoadHeroFails \/ HeroesLoaded

SpecLoad == InitLoad /\ [][NextLoad]_vars

Values(d) == {d[i] : i \in DOMAIN d}

\* C29: the store falls back to the sample data: when the data file is
\* missing or loading it fails at any point, the constructed store holds
\* exactly the sample data set (dart_monkey, boomerang_monkey, sniper_monkey
\* and the hero quincy) and no entry loaded from the file before the
\* failure; construction never raises.
C29_FallbackIsSampleOnly ==
    pc = "sample" =>
        /\ Values(towers) = {dart_monkey, boomerang_monkey, sniper_monkey}
        /\ Values(heroes) = {quincy}

----------------------------------------------------------------------------
(* BTD6WebScraper.scrape_btd6_wiki and run_generator of src/scraper.py     *)
(*                                                                         *)
(* A link of the category page is known by its position, a scraped tower   *)
(* by the position of the link it came from.                               *)

\* tower_links[:10]
LinkLimit == 10

MaxLinks == 11

\* a slip: the slice is left out, every link of the page is looked at
sliced_All(n) == n

\* len(tower_links[:10])
sliced(n) == IF n < LinkLimit THEN n ELSE LinkLimit

\* the ids of the towers of _get_fallback_towers
fallback_towers ==
    <<"dart_monkey", "boomerang_monkey", "bomb_shooter", "sniper_monkey",
      "wizard_monkey", "banana_farm">>

\* the list scrape_btd6_wiki returns
Fallback == [kind |-> "fallback", towers |-> fallback_towers]
Scraped(found) == [kind |-> "scraped", towers |-> found]

\* towers after the loop: `if not towers: towers = self._get_fallback_towers()`
towers_or_fallback(found) ==
    IF found = <<>> THEN Fallback ELSE Scraped(found)

scrapeLocals == <<tower_links, link_index, visited, scraped>>

scraperOthers ==
    <<normVars, typeVars, genVars, schemaVars, wrapperVars, concVars, storeVars>>

InitScraper ==
    /\ pc = "scrape"
    /\ tower_links = 0 /\ link_index = 0 /\ visited = {} /\ scraped = <<>>
    /\ scrape_result = Unbound
    /\ scraper_closed = 0
    /\ gen_error = "none"
    /\ NormUnused /\ TypeUnused /\ GenUnused
    /\ SchemaUnused /\ WrapperUnused
    /\ ConcUnused /\ StoreUnused

\* the category page is fetched and parsed: it holds some number of links
FetchCategory ==
    /\ pc = "scrape"
    /\ \E n \in 0..MaxLinks : tower_links' = n
    /\ link_index' = 1
    /\ pc' = "links"
    /\ UNCHANGED <<visited, scraped, scrape_result, scraper_closed, gen_error,
                   scraperOthers>>

\* the fetch or the parse raises: the outer except of scrape_btd6_wiki
FetchCategoryFails ==
    /\ pc = "scrape"
    /\ scrape_result' = Fallback
    /\ pc' = "heroes"
    /\ UNCHANGED <<scrapeLocals, scraper_closed, gen_error, scraperOthers>>

\* a link without one of the words Monkey, Tower, Shooter, Farm
SkipLink ==
    /\ pc = "links"
    /\ link_index <= sliced(tower_links)
    /\ link_index' = link_index + 1
    /\ UNCHANGED <<pc, tower_links, visited, scraped, scrape_result,
                   scraper_closed, gen_error, scraperOthers>>

\* a link with one of the words: _scrape_tower_page returns a tower
PageScraped ==
    /\ pc = "links"
    /\ link_index <= sliced(tower_links)
    /\ visited' = visited \cup {link_index}
    /\ scraped' = Append(scraped, link_index)
    /\ link_index' = link_index + 1
    /\ UNCHANGED <<pc, tower_links, scrape_result, scraper_closed, gen_error,
                   scraperOthers>>

\* _scrape_tower_page returns None, or raises and the inner except goes on
\* with the next link
PageSkipped ==
    /\ pc = "links"
    /\ link_index <= sliced(tower_links)
    /\ visited' = visited \cup {link_index}
    /\ link_index' = link_index + 1
    /\ UNCHANGED <<pc, tower_links, scraped, scrape_result, scraper_closed,
                   gen_error, scraperOthers>>

\* the loop is over: scrape_btd6_wiki returns and its locals are gone
LinksDone ==
    /\ pc = "links"
    /\ link_index > sliced(tower_links)
    /\ scrape_result' = towers_or_fallback(scraped)
    /\ tower_links' = 0 /\ link_index' = 0 /\ visited' = {} /\ scraped' = <<>>
    /\ pc' = "heroes"
    /\ UNCHANGED <<scraper_closed, gen_error, scraperOthers>>

\* scrape_heroes, which catches its failures like scrape_btd6_wiki
ScrapeHeroes ==
    /\ pc = "heroes"
    /\ pc' = "models"
    /\ UNCHANGED <<scrapeLocals, scrape_result, scraper_closed, gen_error,
                   scraperOthers>>

\* where run_generator goes after a step of its try block
after_step(ok, next) == IF ok THEN next ELSE "finally"

\* a step of the try block of run_generator: it ends or it raises
TryStep(at, next) ==
    /\ pc = at
    /\ \E ok \in BOOLEAN :
          /\ pc' = after_step(ok, next)
          /\ gen_error' = IF ok THEN gen_error ELSE at
    /\ UNCHANGED <<scrapeLocals, scrape_result, scraper_closed, scraperOthers>>

GenerateModels == TryStep("models", "render")

RenderServer == TryStep("render", "write")

WriteServer == TryStep("write", "finally")

\* finally: await scraper.close()
CloseScraper ==
    /\ pc = "finally"
    /\ scraper_closed' = scraper_closed + 1
    /\ pc' = "exit"
    /\ UNCHANGED <<scrapeLocals, scrape_result, gen_error, scraperOthers>>

NextScraper ==
    \/ FetchCategory \/ FetchCategoryFails
    \/ SkipLink \/ PageScraped \/ PageSkipped \/ LinksDone
    \/ ScrapeHeroes
    \/ GenerateModels \/ RenderServer \/ WriteServer
    \/ CloseScraper

SpecScraper == InitScraper /\ [][NextScraper]_vars

\* scrape_btd6_wiki has returned
ScrapeReturned == pc \notin {"scrape", "links"}

ScrapeNeverEmpty ==
    /\ ScrapeReturned =>
          /\ scrape_result # Unbound
          /\ Len(scrape_result.towers) >= 1
    /\ visited \subseteq 1..LinkLimit
    /\ \A i \in DOMAIN scraped : scraped[i] \in visited

ClosedExactlyOnce ==
    /\ pc = "exit" => scraper_closed = 1
    /\ pc # "exit" => scraper_closed = 0

\* a pass of the loop keeps the towers of the earlier pages and goes on to
\* the next link; the loop ends with the towers found or, without any, with
\* the fallback towers; a failed category fetch ends with the fallback
ScrapeStep ==
    /\ (pc = "links" /\ pc' = "links") =>
          /\ link_index' = link_index + 1
          /\ Len(scraped') >= Len(scraped)
          /\ SubSeq(scraped', 1, Len(scraped)) = scraped
    /\ (pc = "links" /\ pc' # "links") =>
          /\ pc' = "heroes"
          /\ scrape_result' = IF scraped = <<>> THEN Fallback
                              ELSE Scraped(scraped)
    /\ (pc = "scrape" /\ pc' # "links") =>
          /\ pc' = "heroes"
          /\ scrape_result' = Fallback

\* C30: scrape_btd6_wiki never raises and never returns an empty list: a
\* failure while scraping one tower page skips only that page, at most the
\* first 10 links of the category page are visited, and when the category
\* fetch fails or no page yields a tower the fallback tower list is
\* returned; run_generator closes the scraper exactly once whether
\* scraping, rendering or writing succeeds or fails.
C30_ScrapeNeverEmptyClosedOnce ==
    /\ [](ScrapeNeverEmpty /\ ClosedExactlyOnce)
    /\ [][ScrapeStep]_vars

\* the pages of the first and the third link gave a tower, the second link
\* gave none; rendering raised and the scraper was closed
C30_Witness ==
    /\ pc = "exit"
    /\ scrape_result = Scraped(<<1, 3>>)
    /\ gen_error = "render"
    /\ scraper_closed = 1

====
